---- MODULE Spec2Model ----
(***************************************************************************)
(* Vision Board AI: the gateway functions of services/geminiService and    *)
(* the result state of App, as a state machine.                            *)
(*                                                                         *)
(* Strings that the code inspects (reply texts, data URLs) are sequences   *)
(* of characters; a run of characters the code never looks into (a MIME    *)
(* type, a base64 payload, the member list of a JSON object) is one        *)
(* element of the sequence.  null is <<>> for strings and Null for         *)
(* objects; the code only tests these slots for truthiness.                *)
(***************************************************************************)
EXTENDS Integers, Sequences, FiniteSets, TLC

Null == [t |-> "null"]
NoFile == "none"
NoUrl == << >>
NoText == << >>
NoData == [mimeType |-> << >>, data |-> << >>]
NoMsg == [prefix |-> "", body |-> "", arg |-> << >>]

\* bounds of the model
MaxParts == 2
MaxChunks == 2
MaxRequests == 3
LongLen == 151

\* src/unnamed/part_002:477, substring(0, 150)
QuoteLen == 150

----------------------------------------------------------------------------
(* String helpers: String.prototype.trim and substring *)

WS == {" ", "\n"}

\* the backquote character, U+0060
Tick == "tick"

RECURSIVE TrimLeft(_)
TrimLeft(s) ==
  IF s # << >> /\ Head(s) \in WS THEN TrimLeft(Tail(s)) ELSE s

RECURSIVE TrimRight(_)
TrimRight(s) ==
  IF s # << >> /\ s[Len(s)] \in WS THEN TrimRight(SubSeq(s, 1, Len(s) - 1)) ELSE s

Trim(s) == TrimRight(TrimLeft(s))

Substring(s, n) == IF Len(s) <= n THEN s ELSE SubSeq(s, 1, n)

----------------------------------------------------------------------------
(* JSON.parse on the texts of the model.  The member list of an object is  *)
(* one letter: "P", "A", "F", "E", "D", "O" all documented members with     *)
(* elementType "product", "architectural_feature", "fashion_item",         *)
(* "food_item", "design_element", "other"; "Q" all members but an          *)
(* elementType outside the enum; an empty list is the object {}.  Three    *)
(* backquotes as the member list are the members of "O" with a name that   *)
(* holds three backquotes: the object "T".                                 *)

ParseError == [t |-> "error", v |-> ""]
JsNull == [t |-> "null", v |-> ""]

JsonTable ==
  { << <<"{", "P", "}">>, [t |-> "obj", v |-> "P"] >>,
    << <<"{", "A", "}">>, [t |-> "obj", v |-> "A"] >>,
    << <<"{", "F", "}">>, [t |-> "obj", v |-> "F"] >>,
    << <<"{", "E", "}">>, [t |-> "obj", v |-> "E"] >>,
    << <<"{", "D", "}">>, [t |-> "obj", v |-> "D"] >>,
    << <<"{", "O", "}">>, [t |-> "obj", v |-> "O"] >>,
    << <<"{", "Q", "}">>, [t |-> "obj", v |-> "Q"] >>,
    << <<"{", Tick, Tick, Tick, "}">>, [t |-> "obj", v |-> "T"] >>,
    << <<"{", "}">>, [t |-> "obj", v |-> ""] >>,
    << <<"[", "]">>, [t |-> "arr", v |-> ""] >>,
    << <<"0">>, [t |-> "num", v |-> "0"] >>,
    << <<"7">>, [t |-> "num", v |-> "7"] >>,
    << <<"\"", "\"">>, [t |-> "str", v |-> ""] >>,
    << <<"\"", Tick, Tick, Tick, "\"">>, [t |-> "str", v |-> "ticks"] >>,
    << <<"n", "u", "l", "l">>, JsNull >>,
    << <<"f", "a", "l", "s", "e">>, [t |-> "bool", v |-> "false"] >>,
    << <<"t", "r", "u", "e">>, [t |-> "bool", v |-> "true"] >> }

JSONParse(s) ==
  LET body == Trim(s)
  IN IF \E e \in JsonTable : e[1] = body
       THEN (CHOOSE e \in JsonTable : e[1] = body)[2]
       ELSE ParseError

\* JavaScript truthiness of a parsed value
Truthy(v) ==
  CASE v.t = "null" -> FALSE
    [] v.t = "error" -> FALSE
    [] v.t = "bool" -> v.v = "true"
    [] v.t = "num" -> v.v # "0"
    [] v.t = "str" -> v.v # ""
    [] OTHER -> TRUE

ElementTypes ==
  {"product", "design_element", "architectural_feature", "fashion_item", "food_item", "other"}

\* details.elementType of a parsed value, "" when the value has no such member
ElementTypeOf(v) ==
  CASE v.t = "obj" /\ v.v = "P" -> "product"
    [] v.t = "obj" /\ v.v = "A" -> "architectural_feature"
    [] v.t = "obj" /\ v.v = "F" -> "fashion_item"
    [] v.t = "obj" /\ v.v = "E" -> "food_item"
    [] v.t = "obj" /\ v.v = "D" -> "design_element"
    [] v.t = "obj" /\ v.v \in {"O", "T"} -> "other"
    [] v.t = "obj" /\ v.v = "Q" -> "gadget"
    [] OTHER -> ""

\* `${details.name}`: the name of an object that has one, else "undefined"
NameOf(v) ==
  IF v.t = "obj" /\ v.v # "" THEN <<"name", "-", v.v>> ELSE <<"undefined">>

\* the documented shape of ElementDetails
IsElementDetails(v) ==
  /\ v.t = "obj"
  /\ v.v \in {"P", "A", "F", "E", "D", "O", "T"}
  /\ ElementTypeOf(v) \in ElementTypes

----------------------------------------------------------------------------
(* parseJsonFromMarkdown: /```(json)?\s*([\s\S]+?)\s*```/ then JSON.parse  *)

IsFenceAt(s, i) ==
  /\ i >= 1
  /\ i + 2 <= Len(s)
  /\ s[i] = Tick /\ s[i + 1] = Tick /\ s[i + 2] = Tick

HasJsonAt(s, i) ==
  /\ i + 3 <= Len(s)
  /\ SubSeq(s, i, i + 3) = <<"j", "s", "o", "n">>

AllWs(s, a, b) == \A k \in a..b : s[k] \in WS

\* after the group ends at e: \s* and the closing fence
Closes(s, e) == \E c \in (e + 1)..Len(s) : IsFenceAt(s, c) /\ AllWs(s, e + 1, c - 1)

\* the ways the pattern matches with its opening fence at i:
\* <<p, q, e>>, the tag ends before p, the group is s[q..e]
FenceMatchesAt(s, i) ==
  IF ~IsFenceAt(s, i) THEN {}
  ELSE LET starts == {i + 3} \cup (IF HasJsonAt(s, i + 3) THEN {i + 7} ELSE {})
       IN { m \in starts \X ((i + 3)..Len(s)) \X ((i + 3)..Len(s)) :
              /\ m[2] >= m[1]
              /\ AllWs(s, m[1], m[2] - 1)
              /\ m[3] >= m[2]
              /\ Closes(s, m[3]) }

Max(S) == CHOOSE x \in S : \A y \in S : y <= x
Min(S) == CHOOSE x \in S : \A y \in S : x <= y

\* of the matches ms at one opening fence: greedy tag, greedy \s*, lazy group
GroupOf(s, ms) ==
  LET p == Max({m[1] : m \in ms})
      q == Max({m[2] : m \in {n \in ms : n[1] = p}})
      e == Min({m[3] : m \in {n \in ms : n[1] = p /\ n[2] = q}})
  IN SubSeq(s, q, e)

\* match[2] of the leftmost match; << >> if the pattern does not match
FenceGroup(s) ==
  LET opens == {i \in 1..Len(s) : FenceMatchesAt(s, i) # {}}
  IN IF opens = {} THEN << >> ELSE GroupOf(s, FenceMatchesAt(s, Min(opens)))

\* match && match[2] ? match[2] : text
GroupOrText(group, text) == IF group # << >> THEN group ELSE text

\* const jsonString = match && match[2] ? match[2].trim() : text.trim()
jsonString(text) == Trim(GroupOrText(FenceGroup(text), text))

\* JSON.parse outside the try block
NoCatch(parsed) == parsed

\* catch (e) { return null }
CatchParse(parsed) == IF parsed = ParseError THEN JsNull ELSE parsed

\* try { return JSON.parse(jsonString) } catch (e) { return null }
parseJsonFromMarkdown(text) == CatchParse(JSONParse(jsonString(text)))

----------------------------------------------------------------------------
(* Replies of the service *)

Images ==
  { [mimeType |-> <<"image/png">>, data |-> <<"AAAA">>],
    [mimeType |-> <<"image/jpeg">>, data |-> <<"BBBB">>] }

LongText == [i \in 1..LongLen |-> "x"]

Texts ==
  { << >>,
    <<"{", "P", "}">>,
    <<"{", "Q", "}">>,
    <<"{", "}">>,
    <<"[", "]">>,
    <<"0">>,
    <<"n", "u", "l", "l">>,
    <<"f", "a", "l", "s", "e">>,
    <<"\"", "\"">>,
    <<"o", "k">>,
    <<Tick, Tick, Tick, "j", "s", "o", "n", "\n", "{", "P", "}", "\n", Tick, Tick, Tick>>,
    <<Tick, Tick, Tick, "\n", "o", "k", "\n", Tick, Tick, Tick>>,
    LongText }

TextParts == { [text |-> x, inlineData |-> NoData] : x \in Texts }
ImageParts == { [text |-> NoText, inlineData |-> i] : i \in Images }
Parts == TextParts \cup ImageParts

RECURSIVE SeqsUpTo(_, _)
SeqsUpTo(S, n) ==
  IF n = 0 THEN { << >> }
  ELSE LET shorter == SeqsUpTo(S, n - 1)
       IN shorter \cup { Append(s, x) : s \in {r \in shorter : Len(r) = n - 1}, x \in S }

BlockReasons == {"", "SAFETY"}
TransportErrors == {"fetch failed"}

Candidate(parts) == [parts |-> parts, groundingChunks |-> << >>]

\* replies to the image model: a throw of the call, or a response
ImageReplies ==
  { [threw |-> TRUE, message |-> m, blockReason |-> "", candidates |-> << >>] :
      m \in TransportErrors }
  \cup
  { [threw |-> FALSE, message |-> "", blockReason |-> b, candidates |-> c] :
      b \in BlockReasons,
      c \in { << >> } \cup { <<Candidate(ps)>> : ps \in SeqsUpTo(Parts, MaxParts) } }

NoWeb == [title |-> "", uri |-> ""]
Chunks ==
  { [title |-> "Shop", uri |-> "https://a"],
    [title |-> "", uri |-> "https://b"],
    [title |-> "Map", uri |-> ""],
    NoWeb }

\* replies to the search model
SearchReplies ==
  { [threw |-> TRUE, message |-> m, blockReason |-> "", candidates |-> << >>] :
      m \in TransportErrors }
  \cup
  { [threw |-> FALSE, message |-> "", blockReason |-> b, candidates |-> c] :
      b \in BlockReasons,
      c \in { << >> } \cup
            { <<[parts |-> << >>, groundingChunks |-> g]>> : g \in SeqsUpTo(Chunks, MaxChunks) } }

----------------------------------------------------------------------------
(* The gateway functions.  An outcome is a returned value or a thrown      *)
(* Error; a message is prefix + body, the body quoting arg where it has a  *)
(* placeholder.                                                            *)

Ok(v) == [ok |-> TRUE, value |-> v, error |-> NoMsg]
Err(body, arg) == [ok |-> FALSE, value |-> Null, error |-> [prefix |-> "", body |-> body, arg |-> arg]]

MsgBlocked == "Request was blocked due to: ${blockReason}"
MsgNoResponse == "The AI did not return a response. It may have been filtered for safety reasons."
MsgNoMoodboardImage == "The AI did not return an image. It may have been filtered for safety reasons or the prompt was unclear."
MsgNoElementImage == "The AI failed to generate an image for the selected element."
MsgInvalidJson == "The AI failed to provide valid details for the selected element. The response was not valid JSON."
MsgNoEnhancedImage == "The AI did not return an enhanced image. It may have been filtered."
MsgTextInsteadOfImage == "The AI returned text instead of an image. Response: \"${text}...\""
MsgNoCompositeImage == "The AI did not return a composite image. The response was empty or filtered."

PrefixMoodboard == "Failed to generate mood board: "
PrefixDetails == "Failed to get element details: "
PrefixEnhance == "Failed to enhance image: "
PrefixSimilar == "Failed to find similar items: "
PrefixComposite == "Failed to generate composite image: "

\* the catch block passing the error on as it is
RethrowAsIs(prefix, out) == out

\* catch (error) { throw new Error(`${prefix}${error.message}`) }
Rethrow(prefix, out) ==
  IF out.ok THEN out ELSE [out EXCEPT !.error.prefix = prefix]

DataUrl(inlineData) ==
  <<"data", ":">> \o inlineData.mimeType \o <<";", "base64", ",">> \o inlineData.data

\* callGeminiModel looking at the candidates before the block reason
callGeminiModelCandidatesFirst(resp) ==
  IF resp.threw THEN Err(resp.message, << >>)
  ELSE IF Len(resp.candidates) > 0 THEN Ok(resp.candidates[1].parts)
  ELSE IF resp.blockReason # "" THEN Err(MsgBlocked, <<resp.blockReason>>)
  ELSE Err(MsgNoResponse, << >>)

callGeminiModel(resp) ==
  IF resp.threw THEN Err(resp.message, << >>)
  ELSE IF resp.blockReason # "" THEN Err(MsgBlocked, <<resp.blockReason>>)
  ELSE IF Len(resp.candidates) = 0 THEN Err(MsgNoResponse, << >>)
  ELSE Ok(resp.candidates[1].parts)

\* for (const part of parts) { if (part.text) ... else if (part.inlineData) ... }
RECURSIVE DemuxImageText(_, _)
DemuxImageText(parts, acc) ==
  IF parts = << >> THEN acc
  ELSE LET part == Head(parts)
           next == IF part.text # NoText THEN [acc EXCEPT !.text = part.text]
                   ELSE IF part.inlineData # NoData
                          THEN [acc EXCEPT !.imageUrl = DataUrl(part.inlineData)]
                   ELSE acc
       IN DemuxImageText(Tail(parts), next)

\* generateMoodboard without the if (!imageUrl) throw
generateMoodboardUnchecked(resp) ==
  LET called == callGeminiModel(resp)
      got == DemuxImageText(called.value, [imageUrl |-> NoUrl, text |-> NoText])
      body == IF ~called.ok THEN called
              ELSE Ok([imageUrl |-> got.imageUrl, text |-> got.text, colors |-> << >>])
  IN Rethrow(PrefixMoodboard, body)

generateMoodboard(resp) ==
  LET called == callGeminiModel(resp)
      got == DemuxImageText(called.value, [imageUrl |-> NoUrl, text |-> NoText])
      body == IF ~called.ok THEN called
              ELSE IF got.imageUrl = NoUrl THEN Err(MsgNoMoodboardImage, << >>)
              ELSE Ok([imageUrl |-> got.imageUrl, text |-> got.text, colors |-> << >>])
  IN Rethrow(PrefixMoodboard, body)

RECURSIVE DemuxImageDetails(_, _)
DemuxImageDetails(parts, acc) ==
  IF parts = << >> THEN acc
  ELSE LET part == Head(parts)
           next == IF part.text # NoText
                     THEN [acc EXCEPT !.details = parseJsonFromMarkdown(part.text)]
                   ELSE IF part.inlineData # NoData
                          THEN [acc EXCEPT !.imageUrl = DataUrl(part.inlineData)]
                   ELSE acc
       IN DemuxImageDetails(Tail(parts), next)

\* getElementDetails with its two checks in the other order
getElementDetailsChecksJsonFirst(resp) ==
  LET called == callGeminiModel(resp)
      got == DemuxImageDetails(called.value, [imageUrl |-> NoUrl, details |-> JsNull])
      body == IF ~called.ok THEN called
              ELSE IF ~Truthy(got.details) THEN Err(MsgInvalidJson, << >>)
              ELSE IF got.imageUrl = NoUrl THEN Err(MsgNoElementImage, << >>)
              ELSE Ok([imageUrl |-> got.imageUrl, details |-> got.details])
  IN Rethrow(PrefixDetails, body)

getElementDetails(resp) ==
  LET called == callGeminiModel(resp)
      got == DemuxImageDetails(called.value, [imageUrl |-> NoUrl, details |-> JsNull])
      body == IF ~called.ok THEN called
              ELSE IF got.imageUrl = NoUrl THEN Err(MsgNoElementImage, << >>)
              ELSE IF ~Truthy(got.details) THEN Err(MsgInvalidJson, << >>)
              ELSE Ok([imageUrl |-> got.imageUrl, details |-> got.details])
  IN Rethrow(PrefixDetails, body)

\* for (const part of parts) { if (part.inlineData) return ... }
RECURSIVE FirstImage(_)
FirstImage(parts) ==
  IF parts = << >> THEN NoUrl
  ELSE IF Head(parts).inlineData # NoData THEN DataUrl(Head(parts).inlineData)
  ELSE FirstImage(Tail(parts))

enhanceImageTo8K(resp) ==
  LET called == callGeminiModel(resp)
      url == FirstImage(called.value)
      body == IF ~called.ok THEN called
              ELSE IF url # NoUrl THEN Ok(url)
              ELSE Err(MsgNoEnhancedImage, << >>)
  IN Rethrow(PrefixEnhance, body)

\* generateCompositeImage quoting the whole text
generateCompositeImageQuotesAll(resp) ==
  LET called == callGeminiModel(resp)
      got == DemuxImageText(called.value, [imageUrl |-> NoUrl, text |-> NoText])
      body == IF ~called.ok THEN called
              ELSE IF got.imageUrl # NoUrl THEN Ok(got.imageUrl)
              ELSE IF got.text # NoText THEN Err(MsgTextInsteadOfImage, got.text)
              ELSE Err(MsgNoCompositeImage, << >>)
  IN Rethrow(PrefixComposite, body)

generateCompositeImage(resp) ==
  LET called == callGeminiModel(resp)
      got == DemuxImageText(called.value, [imageUrl |-> NoUrl, text |-> NoText])
      body == IF ~called.ok THEN called
              ELSE IF got.imageUrl # NoUrl THEN Ok(got.imageUrl)
              ELSE IF got.text # NoText
                     THEN Err(MsgTextInsteadOfImage, Substring(got.text, QuoteLen))
              ELSE Err(MsgNoCompositeImage, << >>)
  IN Rethrow(PrefixComposite, body)

\* the five prompts of findSimilarItems; ${name} stands for details.name
PromptEcommerce == "Find the product named \"${name}\" on e-commerce websites like Amazon, Myntra, H&M, or other relevant online stores. Prioritize direct shopping links."
PromptMaps == "Find the location of the building or landmark known as \"${name}\" on Google Maps. Provide a direct link to the location."
PromptRecipes == "Find recipes for \"${name}\" from Zomato, food wikis, or popular recipe blogs."
PromptArt == "Find similar artwork or designs to \"${name}\" on Pinterest, Behance, or Dribbble."
PromptGeneric == "Find more information and relevant links for \"${name}\"."

NoSent == [template |-> "", name |-> << >>]

\* findSimilarItems without its case 'architectural_feature'
findSimilarPromptNoMaps(details) ==
  LET elementType == ElementTypeOf(details)
      template == CASE elementType \in {"fashion_item", "product"} -> PromptEcommerce
                    [] elementType = "food_item" -> PromptRecipes
                    [] elementType = "design_element" -> PromptArt
                    [] OTHER -> PromptGeneric
  IN [template |-> template, name |-> NameOf(details)]

\* switch (details.elementType) { ... }: the prompt findSimilarItems sends
findSimilarPrompt(details) ==
  LET elementType == ElementTypeOf(details)
      template == CASE elementType \in {"fashion_item", "product"} -> PromptEcommerce
                    [] elementType = "architectural_feature" -> PromptMaps
                    [] elementType = "food_item" -> PromptRecipes
                    [] elementType = "design_element" -> PromptArt
                    [] OTHER -> PromptGeneric
  IN [template |-> template, name |-> NameOf(details)]

\* chunks.map(...) without the filter
RECURSIVE MapChunks(_)
MapChunks(chunks) ==
  IF chunks = << >> THEN << >>
  ELSE LET web == Head(chunks)
       IN <<[title |-> IF web.title # "" THEN web.title ELSE "Untitled", uri |-> web.uri]>>
            \o MapChunks(Tail(chunks))

\* chunks.map(...).filter(item => item.uri)
RECURSIVE MapFilterChunks(_)
MapFilterChunks(chunks) ==
  IF chunks = << >> THEN << >>
  ELSE LET web == Head(chunks)
           item == [title |-> IF web.title # "" THEN web.title ELSE "Untitled", uri |-> web.uri]
       IN (IF item.uri # "" THEN <<item>> ELSE << >>) \o MapFilterChunks(Tail(chunks))

\* findSimilarItems calling the service through callGeminiModel
findSimilarItemsChecked(resp) ==
  LET called == callGeminiModel(resp)
      chunks == IF Len(resp.candidates) = 0 THEN << >> ELSE resp.candidates[1].groundingChunks
      body == IF ~called.ok THEN called
              ELSE IF Len(chunks) > 0 THEN Ok([items |-> MapFilterChunks(chunks)])
              ELSE Ok([items |-> << >>])
  IN Rethrow(PrefixSimilar, body)

findSimilarItems(resp) ==
  LET chunks == IF Len(resp.candidates) = 0 THEN << >> ELSE resp.candidates[1].groundingChunks
      body == IF resp.threw THEN Err(resp.message, << >>)
              ELSE IF Len(chunks) > 0 THEN Ok([items |-> MapFilterChunks(chunks)])
              ELSE Ok([items |-> << >>])
  IN Rethrow(PrefixSimilar, body)

----------------------------------------------------------------------------
(* App: the state of the component, the async continuations in flight and  *)
(* the history the properties refer to.                                    *)

VARIABLES
  primaryImageFile, primaryImagePreview, secondaryImageFile, secondaryImagePreview,
  imageType,
  generatedResult, isLoading, error,
  elementDetailsResult, isElementLoading, elementError, clickPosition,
  isEnhancing, enhancementError,
  similarItems, isFindingSimilar, findSimilarError,
  compositeResultUrl, isGeneratingComposite, compositeError,
  tasks,      \* handlers suspended at an await or waiting for an image event
  issued,     \* number of handler runs that got past their guard
  lastIssued, \* per kind, the id of the handler run whose gateway call is the latest
  src,        \* per result slot, the handler run that wrote the value it holds
  last,       \* the step just taken
  gwOp, gwReply, gwOut, \* a gateway function applied to a reply on its own
  gwArg, gwSent         \* its argument, and what it sent to the service

uploadVars == <<primaryImageFile, primaryImagePreview, secondaryImageFile, secondaryImagePreview>>
moodVars == <<generatedResult, isLoading, error>>
elemVars == <<elementDetailsResult, isElementLoading, elementError, clickPosition>>
enhVars == <<isEnhancing, enhancementError>>
simVars == <<similarItems, isFindingSimilar, findSimilarError>>
compVars == <<compositeResultUrl, isGeneratingComposite, compositeError>>
histVars == <<issued, lastIssued, src>>
gwVars == <<gwOp, gwReply, gwOut, gwArg, gwSent>>
appVars == <<uploadVars, imageType, moodVars, elemVars, enhVars, simVars, compVars,
             tasks, histVars, last>>
vars == <<appVars, gwVars>>

Files == {"a.jpg", "b.png"}

\* the files dropped on the second uploader in the model
SecondFiles == {"b.png"}

imageTypes ==
  {"FASHION/OUTFIT", "PRODUCT", "INTERIOR/ROOM", "LANDSCAPE/SCENE", "FOOD", "ARTWORK", "OTHER"}

\* the categories the selector is clicked on in the model
SelectedTypes == {"FASHION/OUTFIT", "FOOD"}

\* uploaderConfig[type].showSecondary
showSecondary(type) == type \in {"FASHION/OUTFIT", "PRODUCT"}

\* URL.createObjectURL(file); null is << >>
createObjectURL(file) == <<"blob", file>>

Kinds == {"moodboard", "composite", "details", "enhance", "similar"}

Clicks == { [x |-> 3, y |-> 2] }

\* a message a handler sets itself
Plain(body) == [prefix |-> "", body |-> body, arg |-> << >>]

MsgUploadPrimaryFirst == "Please upload the primary image first."
MsgUploadBothFirst == "Please upload both images first."
MsgMoodboardFailed == "Moodboard generation failed."
MsgCompositeFailed == "Composite image generation failed."
MsgNoCanvas == "Could not process image click."
MsgImageLoadFailed == "Could not load image to process click."

NoTask == [id |-> 0, kind |-> "none", phase |-> "none", file |-> NoFile,
           gen |-> 0, det |-> 0, quiet |-> TRUE, calls |-> 0]

\* the handler run started now; what its closure captured
NewTask(kind, phase) ==
  [id |-> issued + 1, kind |-> kind, phase |-> phase,
   file |-> primaryImageFile,
   gen |-> src.moodboard.id, det |-> src.details.id, quiet |-> TRUE,
   calls |-> IF phase = "sent" THEN 1 ELSE 0]

\* what a result slot remembers of the handler run that wrote it
Source(t) == [t EXCEPT !.phase = "done", !.quiet = TRUE]

\* the other suspended handlers, after some handler ran to its end
Others(t) == { [u EXCEPT !.quiet = (u.kind # "moodboard" /\ u.quiet)] : u \in tasks \ {t} }

\* the handler run goes on to its one call of the service
Sent(t) == [t EXCEPT !.phase = "sent", !.calls = @ + 1]

Step(op, ok, arg) == [op |-> op, ok |-> ok, arg |-> arg, quiet |-> TRUE, calls |-> 0]

\* a handler run ended; quiet: no other run ended while it was suspended
\* calls: how many times the run called the service
Settled(t, ok) ==
  [op |-> "settled", ok |-> ok, arg |-> t.kind, quiet |-> t.quiet, calls |-> t.calls]

\* replies the service gives while the application runs
UiImagePart == [text |-> NoText, inlineData |-> [mimeType |-> <<"image/png">>, data |-> <<"AAAA">>]]
UiText(x) == [text |-> x, inlineData |-> NoData]
UiPartLists ==
  { <<UiImagePart, UiText(<<"{", "P", "}">>)>>,
    <<UiImagePart, UiText(<<"[", "]">>)>> }

UiImageReplies ==
  { r \in ImageReplies :
      \/ r.blockReason # "" /\ r.candidates = << >>
      \/ r.blockReason = "" /\ \E ps \in UiPartLists : r.candidates = <<Candidate(ps)>> }

UiSearchReplies ==
  { r \in SearchReplies :
      \/ r.threw
      \/ /\ r.blockReason = ""
         /\ \/ r.candidates = << >>
            \/ /\ r.candidates # << >>
               /\ r.candidates[1].groundingChunks \in
                    { << >>, <<[title |-> "Shop", uri |-> "https://a"]>> } }

----------------------------------------------------------------------------
(* Init *)

AppInit ==
  /\ primaryImageFile = NoFile /\ primaryImagePreview = NoUrl
  /\ secondaryImageFile = NoFile /\ secondaryImagePreview = NoUrl
  /\ imageType = "FASHION/OUTFIT"
  /\ generatedResult = Null /\ isLoading = FALSE /\ error = NoMsg
  /\ elementDetailsResult = Null /\ isElementLoading = FALSE /\ elementError = NoMsg
  /\ clickPosition = Null
  /\ isEnhancing = FALSE /\ enhancementError = NoMsg
  /\ similarItems = Null /\ isFindingSimilar = FALSE /\ findSimilarError = NoMsg
  /\ compositeResultUrl = NoUrl /\ isGeneratingComposite = FALSE /\ compositeError = NoMsg
  /\ tasks = {}
  /\ issued = 0
  /\ lastIssued = [k \in Kinds |-> 0]
  /\ src = [moodboard |-> NoTask, details |-> NoTask, similar |-> NoTask, composite |-> NoTask]
  /\ last = Step("init", TRUE, "")

GwIdle ==
  /\ gwOp = "none"
  /\ gwReply = [threw |-> FALSE, message |-> "", blockReason |-> "", candidates |-> << >>]
  /\ gwOut = Ok(Null)
  /\ gwArg = Null
  /\ gwSent = NoSent

Init == AppInit /\ GwIdle

----------------------------------------------------------------------------
(* Uploads and the category selector *)

NoSources == [moodboard |-> NoTask, details |-> NoTask, similar |-> NoTask, composite |-> NoTask]

\* resetAllOutputs without its last line
resetAllOutputsKeepsCompositeError ==
  /\ generatedResult' = Null
  /\ elementDetailsResult' = Null
  /\ clickPosition' = Null
  /\ error' = NoMsg
  /\ elementError' = NoMsg
  /\ enhancementError' = NoMsg
  /\ similarItems' = Null
  /\ findSimilarError' = NoMsg
  /\ compositeResultUrl' = NoUrl
  /\ UNCHANGED compositeError

resetAllOutputs ==
  /\ generatedResult' = Null
  /\ elementDetailsResult' = Null
  /\ clickPosition' = Null
  /\ error' = NoMsg
  /\ elementError' = NoMsg
  /\ enhancementError' = NoMsg
  /\ similarItems' = Null
  /\ findSimilarError' = NoMsg
  /\ compositeResultUrl' = NoUrl
  /\ compositeError' = NoMsg

\* handlePrimaryImageUpload aborting the requests in flight
handlePrimaryImageUploadAborts(file) ==
  /\ primaryImageFile' = file
  /\ primaryImagePreview' = createObjectURL(file)
  /\ secondaryImageFile' = NoFile
  /\ secondaryImagePreview' = NoUrl
  /\ resetAllOutputs
  /\ src' = NoSources
  /\ last' = Step("handlePrimaryImageUpload", TRUE, file)
  /\ tasks' = {}
  /\ UNCHANGED <<imageType, isLoading, isElementLoading, isEnhancing, isFindingSimilar,
                 isGeneratingComposite, issued, lastIssued>>

handlePrimaryImageUpload(file) ==
  /\ primaryImageFile' = file
  /\ primaryImagePreview' = createObjectURL(file)
  /\ secondaryImageFile' = NoFile
  /\ secondaryImagePreview' = NoUrl
  /\ resetAllOutputs
  /\ src' = NoSources
  /\ last' = Step("handlePrimaryImageUpload", TRUE, file)
  /\ UNCHANGED <<imageType, isLoading, isElementLoading, isEnhancing, isFindingSimilar,
                 isGeneratingComposite, tasks, issued, lastIssued>>

\* handleSecondaryImageUpload without its setSecondaryImagePreview
handleSecondaryImageUploadKeepsPreview(file) ==
  /\ secondaryImageFile' = file
  /\ last' = Step("handleSecondaryImageUpload", TRUE, file)
  /\ UNCHANGED <<primaryImageFile, primaryImagePreview, secondaryImagePreview, imageType,
                 moodVars, elemVars, enhVars, simVars, compVars, tasks, histVars>>

handleSecondaryImageUpload(file) ==
  /\ secondaryImageFile' = file
  /\ secondaryImagePreview' = createObjectURL(file)
  /\ last' = Step("handleSecondaryImageUpload", TRUE, file)
  /\ UNCHANGED <<primaryImageFile, primaryImagePreview, imageType, moodVars, elemVars, enhVars,
                 simVars, compVars, tasks, histVars>>

\* handleImageTypeChange without its if block
handleImageTypeChangeKeepsSecondary(newType) ==
  /\ imageType' = newType
  /\ last' = Step("handleImageTypeChange", TRUE, newType)
  /\ UNCHANGED <<uploadVars, moodVars, elemVars, enhVars, simVars, compVars, tasks, histVars>>

\* handleImageTypeChange also dropping the composite result
handleImageTypeChangeDropsComposite(newType) ==
  /\ IF showSecondary(imageType) /\ ~showSecondary(newType)
       THEN secondaryImageFile' = NoFile /\ secondaryImagePreview' = NoUrl
       ELSE UNCHANGED <<secondaryImageFile, secondaryImagePreview>>
  /\ imageType' = newType
  /\ compositeResultUrl' = NoUrl
  /\ last' = Step("handleImageTypeChange", TRUE, newType)
  /\ UNCHANGED <<primaryImageFile, primaryImagePreview, moodVars, elemVars, enhVars,
                 simVars, isGeneratingComposite, compositeError, tasks, histVars>>

\* handleImageTypeChange without its setSecondaryImagePreview(null)
handleImageTypeChangeKeepsPreview(newType) ==
  /\ IF showSecondary(imageType) /\ ~showSecondary(newType)
       THEN secondaryImageFile' = NoFile /\ UNCHANGED secondaryImagePreview
       ELSE UNCHANGED <<secondaryImageFile, secondaryImagePreview>>
  /\ imageType' = newType
  /\ last' = Step("handleImageTypeChange", TRUE, newType)
  /\ UNCHANGED <<primaryImageFile, primaryImagePreview, moodVars, elemVars, enhVars,
                 simVars, compVars, tasks, histVars>>

handleImageTypeChange(newType) ==
  /\ IF showSecondary(imageType) /\ ~showSecondary(newType)
       THEN secondaryImageFile' = NoFile /\ secondaryImagePreview' = NoUrl
       ELSE UNCHANGED <<secondaryImageFile, secondaryImagePreview>>
  /\ imageType' = newType
  /\ last' = Step("handleImageTypeChange", TRUE, newType)
  /\ UNCHANGED <<primaryImageFile, primaryImagePreview, moodVars, elemVars, enhVars,
                 simVars, compVars, tasks, histVars>>

----------------------------------------------------------------------------
(* Mood board *)

handleGenerateMoodboard ==
  IF primaryImageFile = NoFile
    THEN /\ error' = Plain(MsgUploadPrimaryFirst)
         /\ last' = Step("handleGenerateMoodboard", FALSE, "")
         /\ UNCHANGED <<uploadVars, imageType, generatedResult, isLoading, elemVars, enhVars,
                        simVars, compVars, tasks, histVars>>
    ELSE /\ issued < MaxRequests
         /\ isLoading' = TRUE
         /\ generatedResult' = Null
         /\ elementDetailsResult' = Null
         /\ clickPosition' = Null
         /\ error' = NoMsg
         /\ elementError' = NoMsg
         /\ enhancementError' = NoMsg
         /\ similarItems' = Null
         /\ findSimilarError' = NoMsg
         /\ tasks' = tasks \cup {NewTask("moodboard", "encoding")}
         /\ issued' = issued + 1
         /\ src' = [src EXCEPT !.moodboard = NoTask, !.details = NoTask, !.similar = NoTask]
         /\ last' = Step("handleGenerateMoodboard", TRUE, "")
         /\ UNCHANGED <<uploadVars, imageType, isElementLoading, isEnhancing, isFindingSimilar,
                        compVars, lastIssued>>

\* fileToBase64 resolved: the handler goes on to its gateway call
fileToBase64Resolved(t) ==
  /\ t.kind \in {"moodboard", "composite"}
  /\ t.phase = "encoding"
  /\ tasks' = (tasks \ {t}) \cup {Sent(t)}
  /\ lastIssued' = [lastIssued EXCEPT ![t.kind] = t.id]
  /\ last' = Step("request", TRUE, t.kind)
  /\ UNCHANGED <<uploadVars, imageType, moodVars, elemVars, enhVars, simVars, compVars,
                 issued, src>>

\* fileToBase64 rejected with the reader's event, which is not an Error
fileToBase64Rejected(t) ==
  /\ t.phase = "encoding"
  /\ \/ /\ t.kind = "moodboard"
        /\ error' = Plain(MsgMoodboardFailed)
        /\ isLoading' = FALSE
        /\ UNCHANGED <<generatedResult, compVars>>
     \/ /\ t.kind = "composite"
        /\ compositeError' = Plain(MsgCompositeFailed)
        /\ isGeneratingComposite' = FALSE
        /\ UNCHANGED <<compositeResultUrl, moodVars>>
  /\ tasks' = Others(t)
  /\ last' = Settled(t, FALSE)
  /\ UNCHANGED <<uploadVars, imageType, elemVars, enhVars, simVars, histVars>>

\* handleGenerateMoodboard after await generateMoodboard(...): try / catch / finally
generateMoodboardSettled(t, resp) ==
  LET out == generateMoodboard(resp)
  IN /\ t.kind = "moodboard"
     /\ t.phase = "sent"
     /\ IF out.ok
          THEN /\ generatedResult' = out.value
               /\ src' = [src EXCEPT !.moodboard = Source(t)]
               /\ UNCHANGED error
          ELSE /\ error' = out.error
               /\ UNCHANGED <<generatedResult, src>>
     /\ isLoading' = FALSE
     /\ tasks' = Others(t)
     /\ last' = Settled(t, out.ok)
     /\ UNCHANGED <<uploadVars, imageType, elemVars, enhVars, simVars, compVars,
                    issued, lastIssued>>

----------------------------------------------------------------------------
(* Composite *)

handleGenerateComposite ==
  IF ~showSecondary(imageType)
    THEN /\ last' = Step("handleGenerateComposite", FALSE, "")
         /\ UNCHANGED <<uploadVars, imageType, moodVars, elemVars, enhVars, simVars, compVars,
                        tasks, histVars>>
  ELSE IF primaryImageFile = NoFile \/ secondaryImageFile = NoFile
    THEN /\ compositeError' = Plain(MsgUploadBothFirst)
         /\ last' = Step("handleGenerateComposite", FALSE, "")
         /\ UNCHANGED <<uploadVars, imageType, moodVars, elemVars, enhVars, simVars,
                        compositeResultUrl, isGeneratingComposite, tasks, histVars>>
  ELSE /\ issued < MaxRequests
       /\ isGeneratingComposite' = TRUE
       /\ compositeResultUrl' = NoUrl
       /\ compositeError' = NoMsg
       /\ tasks' = tasks \cup {NewTask("composite", "encoding")}
       /\ issued' = issued + 1
       /\ src' = [src EXCEPT !.composite = NoTask]
       /\ last' = Step("handleGenerateComposite", TRUE, "")
       /\ UNCHANGED <<uploadVars, imageType, moodVars, elemVars, enhVars, simVars, lastIssued>>

generateCompositeSettled(t, resp) ==
  LET out == generateCompositeImage(resp)
  IN /\ t.kind = "composite"
     /\ t.phase = "sent"
     /\ IF out.ok
          THEN /\ compositeResultUrl' = out.value
               /\ src' = [src EXCEPT !.composite = Source(t)]
               /\ UNCHANGED compositeError
          ELSE /\ compositeError' = out.error
               /\ UNCHANGED <<compositeResultUrl, src>>
     /\ isGeneratingComposite' = FALSE
     /\ tasks' = Others(t)
     /\ last' = Settled(t, out.ok)
     /\ UNCHANGED <<uploadVars, imageType, moodVars, elemVars, enhVars, simVars,
                    issued, lastIssued>>

----------------------------------------------------------------------------
(* Element details *)

hasImageUrl == generatedResult # Null /\ generatedResult.imageUrl # NoUrl

\* ctx is canvas.getContext('2d'), which may be null
handleImageClick(pos, ctx) ==
  IF ~hasImageUrl
    THEN /\ last' = Step("handleImageClick", FALSE, "")
         /\ UNCHANGED <<uploadVars, imageType, moodVars, elemVars, enhVars, simVars, compVars,
                        tasks, histVars>>
    ELSE /\ issued < MaxRequests
         /\ clickPosition' = pos
         /\ elementDetailsResult' = Null
         /\ similarItems' = Null
         /\ findSimilarError' = NoMsg
         /\ src' = [src EXCEPT !.details = NoTask, !.similar = NoTask]
         /\ issued' = issued + 1
         /\ IF ctx
              THEN /\ isElementLoading' = TRUE
                   /\ elementError' = NoMsg
                   /\ tasks' = tasks \cup {NewTask("details", "loading")}
                   /\ last' = Step("handleImageClick", TRUE, "")
              ELSE /\ isElementLoading' = FALSE
                   /\ elementError' = Plain(MsgNoCanvas)
                   /\ tasks' = tasks
                   /\ last' = Step("handleImageClick", FALSE, "ctx")
         /\ UNCHANGED <<uploadVars, imageType, moodVars, enhVars, isFindingSimilar, compVars,
                        lastIssued>>

\* img.onload up to the gateway call
imgOnload(t) ==
  /\ t.kind = "details"
  /\ t.phase = "loading"
  /\ tasks' = (tasks \ {t}) \cup {Sent(t)}
  /\ lastIssued' = [lastIssued EXCEPT !.details = t.id]
  /\ last' = Step("request", TRUE, t.kind)
  /\ UNCHANGED <<uploadVars, imageType, moodVars, elemVars, enhVars, simVars, compVars,
                 issued, src>>

imgOnerror(t) ==
  /\ t.kind = "details"
  /\ t.phase = "loading"
  /\ elementError' = Plain(MsgImageLoadFailed)
  /\ isElementLoading' = FALSE
  /\ clickPosition' = Null
  /\ tasks' = Others(t)
  /\ last' = Settled(t, FALSE)
  /\ UNCHANGED <<uploadVars, imageType, moodVars, elementDetailsResult, enhVars, simVars,
                 compVars, histVars>>

\* img.onload after await getElementDetails(...): try / catch / finally
getElementDetailsDone(t, out) ==
  /\ t.kind = "details"
  /\ t.phase = "sent"
  /\ IF out.ok
       THEN /\ elementDetailsResult' = out.value
            /\ src' = [src EXCEPT !.details = Source(t)]
            /\ UNCHANGED elementError
       ELSE /\ elementError' = out.error
            /\ UNCHANGED <<elementDetailsResult, src>>
  /\ isElementLoading' = FALSE
  /\ tasks' = Others(t)
  /\ last' = Settled(t, out.ok)
  /\ UNCHANGED <<uploadVars, imageType, moodVars, clickPosition, enhVars, simVars, compVars,
                 issued, lastIssued>>

getElementDetailsSettled(t, resp) == getElementDetailsDone(t, getElementDetails(resp))

----------------------------------------------------------------------------
(* Enhance *)

\* handleEnhanceImage without its first line
handleEnhanceImageUnguarded ==
  /\ issued < MaxRequests
  /\ isEnhancing' = TRUE
  /\ enhancementError' = NoMsg
  /\ tasks' = tasks \cup {NewTask("enhance", "sent")}
  /\ issued' = issued + 1
  /\ lastIssued' = [lastIssued EXCEPT !.enhance = issued + 1]
  /\ last' = Step("request", TRUE, "enhance")
  /\ UNCHANGED <<uploadVars, imageType, moodVars, elemVars, simVars, compVars, src>>

handleEnhanceImage ==
  IF ~hasImageUrl
    THEN /\ last' = Step("handleEnhanceImage", FALSE, "")
         /\ UNCHANGED <<uploadVars, imageType, moodVars, elemVars, enhVars, simVars, compVars,
                        tasks, histVars>>
    ELSE /\ issued < MaxRequests
         /\ isEnhancing' = TRUE
         /\ enhancementError' = NoMsg
         /\ tasks' = tasks \cup {NewTask("enhance", "sent")}
         /\ issued' = issued + 1
         /\ lastIssued' = [lastIssued EXCEPT !.enhance = issued + 1]
         /\ last' = Step("request", TRUE, "enhance")
         /\ UNCHANGED <<uploadVars, imageType, moodVars, elemVars, simVars, compVars, src>>

\* handleEnhanceImage reporting a failure with setError
enhanceImageSettledSetsError(t, resp) ==
  LET out == enhanceImageTo8K(resp)
  IN /\ t.kind = "enhance"
     /\ t.phase = "sent"
     /\ error' = IF out.ok THEN error ELSE out.error
     /\ isEnhancing' = FALSE
     /\ tasks' = Others(t)
     /\ last' = Settled(t, out.ok)
     /\ UNCHANGED <<uploadVars, imageType, generatedResult, isLoading, elemVars,
                    enhancementError, simVars, compVars, histVars>>

\* handleEnhanceImage after await enhanceImageTo8K(...); the download changes no state
enhanceImageSettled(t, resp) ==
  LET out == enhanceImageTo8K(resp)
  IN /\ t.kind = "enhance"
     /\ t.phase = "sent"
     /\ enhancementError' = IF out.ok THEN enhancementError ELSE out.error
     /\ isEnhancing' = FALSE
     /\ tasks' = Others(t)
     /\ last' = Settled(t, out.ok)
     /\ UNCHANGED <<uploadVars, imageType, moodVars, elemVars, simVars, compVars, histVars>>

----------------------------------------------------------------------------
(* Find similar *)

hasDetails == elementDetailsResult # Null /\ Truthy(elementDetailsResult.details)

handleFindSimilar ==
  IF ~hasDetails
    THEN /\ last' = Step("handleFindSimilar", FALSE, "")
         /\ UNCHANGED <<uploadVars, imageType, moodVars, elemVars, enhVars, simVars, compVars,
                        tasks, histVars>>
    ELSE /\ issued < MaxRequests
         /\ isFindingSimilar' = TRUE
         /\ findSimilarError' = NoMsg
         /\ similarItems' = Null
         /\ tasks' = tasks \cup {NewTask("similar", "sent")}
         /\ issued' = issued + 1
         /\ lastIssued' = [lastIssued EXCEPT !.similar = issued + 1]
         /\ src' = [src EXCEPT !.similar = NoTask]
         /\ last' = Step("request", TRUE, "similar")
         /\ UNCHANGED <<uploadVars, imageType, moodVars, elemVars, enhVars, compVars>>

\* handleFindSimilar calling the service once more when the call failed
findSimilarSettledRetries(t, resp) ==
  LET out == findSimilarItems(resp)
  IN /\ t.kind = "similar"
     /\ t.phase = "sent"
     /\ IF ~out.ok /\ t.calls < 2
          THEN /\ tasks' = (tasks \ {t}) \cup {Sent(t)}
               /\ last' = Step("request", TRUE, "similar")
               /\ UNCHANGED <<simVars, src>>
          ELSE /\ IF out.ok
                    THEN /\ similarItems' = out.value
                         /\ src' = [src EXCEPT !.similar = Source(t)]
                         /\ UNCHANGED findSimilarError
                    ELSE /\ findSimilarError' = out.error
                         /\ UNCHANGED <<similarItems, src>>
               /\ isFindingSimilar' = FALSE
               /\ tasks' = Others(t)
               /\ last' = Settled(t, out.ok)
     /\ UNCHANGED <<uploadVars, imageType, moodVars, elemVars, enhVars, compVars,
                    issued, lastIssued>>

findSimilarSettled(t, resp) ==
  LET out == findSimilarItems(resp)
  IN /\ t.kind = "similar"
     /\ t.phase = "sent"
     /\ IF out.ok
          THEN /\ similarItems' = out.value
               /\ src' = [src EXCEPT !.similar = Source(t)]
               /\ UNCHANGED findSimilarError
          ELSE /\ findSimilarError' = out.error
               /\ UNCHANGED <<similarItems, src>>
     /\ isFindingSimilar' = FALSE
     /\ tasks' = Others(t)
     /\ last' = Settled(t, out.ok)
     /\ UNCHANGED <<uploadVars, imageType, moodVars, elemVars, enhVars, compVars,
                    issued, lastIssued>>

----------------------------------------------------------------------------
(* What is rendered: a handler runs when its control is shown and enabled *)

\* the button without isLoading in its disabled expression
GenerateButtonIgnoresLoading == primaryImageFile # NoFile

\* disabled={isLoading || !primaryImageFile}
GenerateButtonEnabled == ~isLoading /\ primaryImageFile # NoFile

\* rendered when showSecondary; disabled={isGeneratingComposite || !primaryImageFile || !secondaryImageFile}
CompositeButtonEnabled ==
  /\ showSecondary(imageType)
  /\ ~isGeneratingComposite
  /\ primaryImageFile # NoFile
  /\ secondaryImageFile # NoFile

\* ResultDisplay returns the spinner alone while isLoading; the image needs hasMoodboardResult
MoodboardShown == ~isLoading /\ hasImageUrl

\* disabled={isEnhancing}
EnhanceButtonEnabled == MoodboardShown /\ ~isEnhancing

\* {details && !isLoading && ...}; disabled={isFindingSimilar}
FindSimilarButtonEnabled ==
  /\ MoodboardShown
  /\ hasDetails
  /\ ~isElementLoading
  /\ ~isFindingSimilar

UploadPrimary == \E file \in Files : handlePrimaryImageUpload(file) /\ UNCHANGED gwVars
UploadSecondary ==
  showSecondary(imageType) /\ \E file \in SecondFiles : handleSecondaryImageUpload(file) /\ UNCHANGED gwVars
SelectImageType == \E newType \in SelectedTypes : handleImageTypeChange(newType) /\ UNCHANGED gwVars
ClickGenerate == GenerateButtonEnabled /\ handleGenerateMoodboard /\ UNCHANGED gwVars
ClickComposite == CompositeButtonEnabled /\ handleGenerateComposite /\ UNCHANGED gwVars
ClickImage == MoodboardShown /\ \E pos \in Clicks, ctx \in BOOLEAN : handleImageClick(pos, ctx) /\ UNCHANGED gwVars
ClickEnhance == EnhanceButtonEnabled /\ handleEnhanceImage /\ UNCHANGED gwVars
ClickFindSimilar == FindSimilarButtonEnabled /\ handleFindSimilar /\ UNCHANGED gwVars

FileRead == \E t \in tasks : fileToBase64Resolved(t) /\ UNCHANGED gwVars
FileReadFailed == \E t \in tasks : fileToBase64Rejected(t) /\ UNCHANGED gwVars
ImageLoaded == \E t \in tasks : imgOnload(t) /\ UNCHANGED gwVars
ImageLoadFailed == \E t \in tasks : imgOnerror(t) /\ UNCHANGED gwVars
MoodboardReplied == \E t \in tasks, resp \in UiImageReplies : generateMoodboardSettled(t, resp) /\ UNCHANGED gwVars
CompositeReplied == \E t \in tasks, resp \in UiImageReplies : generateCompositeSettled(t, resp) /\ UNCHANGED gwVars
DetailsReplied == \E t \in tasks, resp \in UiImageReplies : getElementDetailsSettled(t, resp) /\ UNCHANGED gwVars
EnhanceReplied == \E t \in tasks, resp \in UiImageReplies : enhanceImageSettled(t, resp) /\ UNCHANGED gwVars
SimilarReplied == \E t \in tasks, resp \in UiSearchReplies : findSimilarSettled(t, resp) /\ UNCHANGED gwVars

Next ==
  \/ UploadPrimary
  \/ UploadSecondary
  \/ SelectImageType
  \/ ClickGenerate
  \/ ClickComposite
  \/ ClickImage
  \/ ClickEnhance
  \/ ClickFindSimilar
  \/ FileRead
  \/ FileReadFailed
  \/ ImageLoaded
  \/ ImageLoadFailed
  \/ MoodboardReplied
  \/ CompositeReplied
  \/ DetailsReplied
  \/ EnhanceReplied
  \/ SimilarReplied

Spec == Init /\ [][Next]_vars

----------------------------------------------------------------------------
(* The gateway functions on their own, over every reply of the universe *)

\* the details handleFindSimilar can pass: any truthy parsed value
DetailsArgs == {v \in {e[2] : e \in JsonTable} : Truthy(v)}

GwInit ==
  /\ AppInit
  /\ gwOp = "none"
  /\ \/ gwReply \in ImageReplies /\ gwArg = Null
     \/ gwReply \in SearchReplies /\ gwArg \in DetailsArgs
  /\ gwOut = Ok(Null)
  /\ gwSent = NoSent

GwApply(op, out) ==
  /\ gwOp = "none"
  /\ gwOp' = op
  /\ gwOut' = out
  /\ UNCHANGED <<gwReply, gwArg, appVars>>

GwGenerateMoodboard ==
  /\ gwReply \in ImageReplies /\ gwArg = Null
  /\ GwApply("generateMoodboard", generateMoodboard(gwReply))
  /\ UNCHANGED gwSent
GwGetElementDetails ==
  /\ gwReply \in ImageReplies /\ gwArg = Null
  /\ GwApply("getElementDetails", getElementDetails(gwReply))
  /\ UNCHANGED gwSent
GwEnhanceImageTo8K ==
  /\ gwReply \in ImageReplies /\ gwArg = Null
  /\ GwApply("enhanceImageTo8K", enhanceImageTo8K(gwReply))
  /\ UNCHANGED gwSent
GwGenerateCompositeImage ==
  /\ gwReply \in ImageReplies /\ gwArg = Null
  /\ GwApply("generateCompositeImage", generateCompositeImage(gwReply))
  /\ UNCHANGED gwSent
GwFindSimilarItems ==
  /\ gwReply \in SearchReplies /\ gwArg \in DetailsArgs
  /\ GwApply("findSimilarItems", findSimilarItems(gwReply))
  /\ gwSent' = findSimilarPrompt(gwArg)

GwNext ==
  \/ GwGenerateMoodboard
  \/ GwGetElementDetails
  \/ GwEnhanceImageTo8K
  \/ GwGenerateCompositeImage
  \/ GwFindSimilarItems

GatewaySpec == GwInit /\ [][GwNext]_vars

----------------------------------------------------------------------------
(* Properties *)

Pending(kind) == {t \in tasks : t.kind = kind}

\* the parts of the reply a gateway function was applied to
GwParts == IF Len(gwReply.candidates) = 0 THEN << >> ELSE gwReply.candidates[1].parts
GwBlocked == gwReply.blockReason # ""
GwHasImage == \E i \in 1..Len(GwParts) : GwParts[i].inlineData # NoData
GwTextIndexes == {i \in 1..Len(GwParts) : GwParts[i].text # NoText}
GwLastText == IF GwTextIndexes = {} THEN NoText ELSE GwParts[Max(GwTextIndexes)].text
GwImageIndexes == {i \in 1..Len(GwParts) : GwParts[i].text = NoText /\ GwParts[i].inlineData # NoData}
ImageOps == {"generateMoodboard", "getElementDetails", "enhanceImageTo8K", "generateCompositeImage"}

\* C1: a non-null elementDetailsResult, similarItems or compositeResultUrl was
\* produced from the primary image now uploaded and the generatedResult now
\* held; a reply to a request from before a reset never fills these slots.
C1_DownstreamIsCurrent ==
  /\ elementDetailsResult # Null =>
       /\ src.details.file = primaryImageFile
       /\ generatedResult # Null
       /\ src.details.gen = src.moodboard.id
  /\ similarItems # Null =>
       /\ src.similar.file = primaryImageFile
       /\ generatedResult # Null
       /\ src.similar.gen = src.moodboard.id
       /\ src.similar.det = src.details.id
  /\ compositeResultUrl # NoUrl => src.composite.file = primaryImageFile

\* C2: right after handlePrimaryImageUpload(f) the primary file is f, the
\* secondary file and preview are null, and every result, the click position
\* and all five error messages are null.
C2_UploadClearsEverything ==
  last.op = "handlePrimaryImageUpload" =>
    /\ primaryImageFile = last.arg
    /\ secondaryImageFile = NoFile
    /\ secondaryImagePreview = NoUrl
    /\ generatedResult = Null
    /\ elementDetailsResult = Null
    /\ clickPosition = Null
    /\ similarItems = Null
    /\ compositeResultUrl = NoUrl
    /\ error = NoMsg
    /\ elementError = NoMsg
    /\ enhancementError = NoMsg
    /\ findSimilarError = NoMsg
    /\ compositeError = NoMsg

\* an upload that came after two handler runs had ended
C2_Witness ==
  /\ last.op = "handlePrimaryImageUpload"
  /\ issued >= 2
  /\ tasks = {}
  /\ primaryImageFile = "b.png"

\* C3: when a mood-board generation succeeds and no other operation ended
\* since it was triggered, generatedResult holds the returned image and every
\* other panel's result and error is null.
C3_GenerationClearsOtherPanels ==
  (last.op = "settled" /\ last.arg = "moodboard" /\ last.ok /\ last.quiet) =>
    /\ generatedResult # Null
    /\ generatedResult.imageUrl # NoUrl
    /\ elementDetailsResult = Null
    /\ clickPosition = Null
    /\ similarItems = Null
    /\ compositeResultUrl = NoUrl
    /\ elementError = NoMsg
    /\ enhancementError = NoMsg
    /\ findSimilarError = NoMsg
    /\ compositeError = NoMsg

\* C4 as stated: nothing guards the trigger, it is available whenever a
\* primary image is uploaded, also while a generation is pending.
C4_TriggerIsNotGuarded == primaryImageFile # NoFile => GenerateButtonEnabled

\* C4 as amended: while a generation is pending isLoading is true and the
\* button is disabled, so at most one mood-board request is outstanding; a
\* successful reply writes generatedResult and it is the reply to the latest
\* request.
C4_OneGenerationAtATime ==
  /\ Cardinality(Pending("moodboard")) <= 1
  /\ isLoading <=> Pending("moodboard") # {}
  /\ Pending("moodboard") # {} => ~GenerateButtonEnabled
  /\ (last.op = "settled" /\ last.arg = "moodboard" /\ last.ok) =>
       /\ generatedResult # Null
       /\ src.moodboard.id = lastIssued.moodboard

\* a generation is pending, an image is uploaded, and another run would fit
C4_Witness ==
  /\ Pending("moodboard") # {}
  /\ primaryImageFile # NoFile
  /\ issued < MaxRequests
  /\ ~GenerateButtonEnabled

\* C5: a non-null result in a slot is the reply to the most recently issued
\* request of its kind.
C5_ResultOfLatestRequest ==
  /\ generatedResult # Null => src.moodboard.id = lastIssued.moodboard
  /\ compositeResultUrl # NoUrl => src.composite.id = lastIssued.composite
  /\ elementDetailsResult # Null => src.details.id = lastIssued.details
  /\ similarItems # Null => src.similar.id = lastIssued.similar

\* C6: when an operation fails, its result slot is null and its error slot
\* holds a message afterwards, and the failure changes no result, flag or
\* error of another operation.
C6_FailureIsLocal ==
  [][ (last'.op = "settled" /\ ~last'.ok) =>
        /\ last'.arg = "moodboard" =>
             /\ generatedResult' = Null /\ error' # NoMsg
             /\ UNCHANGED <<elemVars, enhVars, simVars, compVars>>
        /\ last'.arg = "composite" =>
             /\ compositeResultUrl' = NoUrl /\ compositeError' # NoMsg
             /\ UNCHANGED <<moodVars, elemVars, enhVars, simVars>>
        /\ last'.arg = "details" =>
             /\ elementDetailsResult' = Null /\ elementError' # NoMsg
             /\ UNCHANGED <<moodVars, enhVars, simVars, compVars>>
        /\ last'.arg = "enhance" =>
             /\ enhancementError' # NoMsg
             /\ UNCHANGED <<moodVars, elemVars, simVars, compVars>>
        /\ last'.arg = "similar" =>
             /\ similarItems' = Null /\ findSimilarError' # NoMsg
             /\ UNCHANGED <<moodVars, elemVars, enhVars, compVars>> ]_vars

\* C7: a reply with no inline-image part never makes one of the four image
\* operations succeed, and the messages for a block, for no image and for
\* invalid JSON tell the three causes apart.
C7_NoImageNeverSucceeds ==
  (gwOp \in ImageOps /\ ~gwReply.threw) =>
    /\ ~GwHasImage => ~gwOut.ok
    /\ ~gwOut.ok =>
         /\ gwOut.error.body = MsgBlocked <=> GwBlocked
         /\ gwOut.error.body = MsgInvalidJson =>
              gwOp = "getElementDetails" /\ GwHasImage /\ ~GwBlocked
         /\ (~GwBlocked /\ ~GwHasImage) =>
              gwOut.error.body \in
                {MsgNoResponse, MsgNoMoodboardImage, MsgNoElementImage, MsgNoEnhancedImage,
                 MsgTextInsteadOfImage, MsgNoCompositeImage}

\* element details asked of a reply that has valid JSON text and no image
C7_Witness ==
  /\ gwOp = "getElementDetails"
  /\ ~GwBlocked
  /\ ~GwHasImage
  /\ GwLastText = <<"{", "P", "}">>
  /\ ~gwOut.ok
  /\ gwOut.error.body = MsgNoElementImage

\* the text has the syntax of JSON, fenced or not
ParsesAsJson(text) == JSONParse(jsonString(text)) # ParseError

\* C8 as stated: getElementDetails succeeds exactly when the reply is not
\* blocked, has an image part and has a text part that parses as JSON; image
\* without parseable text gives the invalid-JSON message, no image gives the
\* no-image message.
C8_SucceedsIffImageAndJson ==
  (gwOp = "getElementDetails" /\ ~gwReply.threw) =>
    LET parses == \E i \in GwTextIndexes : ParsesAsJson(GwParts[i].text)
        hasCandidate == Len(gwReply.candidates) > 0
    IN /\ gwOut.ok <=> (~GwBlocked /\ GwHasImage /\ parses)
       /\ (~GwBlocked /\ GwHasImage /\ ~parses) => gwOut.error.body = MsgInvalidJson
       /\ (~GwBlocked /\ hasCandidate /\ ~GwHasImage) => gwOut.error.body = MsgNoElementImage

\* C8 as amended: getElementDetails succeeds exactly when the reply is not
\* blocked, has a candidate with an image part, and its last non-empty text
\* part parses to a truthy JSON value; with a candidate and no image it fails
\* with the no-image message whatever the text; with an image and no such
\* text it fails with the invalid-JSON message; with no candidate it fails
\* with the no-response message.
C8_SucceedsIffImageAndTruthyJson ==
  (gwOp = "getElementDetails" /\ ~gwReply.threw) =>
    LET hasCandidate == Len(gwReply.candidates) > 0
        good == GwLastText # NoText /\ Truthy(parseJsonFromMarkdown(GwLastText))
    IN /\ gwOut.ok <=> (~GwBlocked /\ hasCandidate /\ GwHasImage /\ good)
       /\ gwOut.ok => gwOut.value.details = JSONParse(jsonString(GwLastText))
       /\ GwBlocked => gwOut.error.body = MsgBlocked
       /\ (~GwBlocked /\ ~hasCandidate) => gwOut.error.body = MsgNoResponse
       /\ (~GwBlocked /\ hasCandidate /\ ~GwHasImage) => gwOut.error.body = MsgNoElementImage
       /\ (~GwBlocked /\ GwHasImage /\ ~good) => gwOut.error.body = MsgInvalidJson

\* an image and the text 0, which is JSON: rejected as not valid JSON
C8_Witness ==
  /\ gwOp = "getElementDetails"
  /\ ~GwBlocked
  /\ GwHasImage
  /\ GwLastText = <<"0">>
  /\ ParsesAsJson(GwLastText)
  /\ ~gwOut.ok
  /\ gwOut.error.body = MsgInvalidJson

\* C9: only a JSON object of the documented ElementDetails shape is ever
\* returned as details and stored in elementDetailsResult.
C9_StoredDetailsMatchSchema ==
  elementDetailsResult # Null => IsElementDetails(elementDetailsResult.details)

\* C10: generateCompositeImage on a reply that is not blocked returns the
\* image if a part carries one, also next to text; else, with text, fails
\* quoting at most the first 150 characters of it; else fails with another
\* message, that the response was empty or filtered.
C10_CompositeOutcomes ==
  (gwOp = "generateCompositeImage" /\ ~gwReply.threw /\ ~GwBlocked) =>
    /\ GwHasImage =>
         /\ gwOut.ok
         /\ gwOut.value = DataUrl(GwParts[Max(GwImageIndexes)].inlineData)
    /\ (~GwHasImage /\ GwLastText # NoText) =>
         /\ ~gwOut.ok
         /\ gwOut.error.body = MsgTextInsteadOfImage
         /\ Len(gwOut.error.arg) <= QuoteLen
         /\ Len(gwOut.error.arg) <= Len(GwLastText)
         /\ gwOut.error.arg = SubSeq(GwLastText, 1, Len(gwOut.error.arg))
         /\ Len(GwLastText) >= QuoteLen => Len(gwOut.error.arg) = QuoteLen
    /\ (~GwHasImage /\ GwLastText = NoText) =>
         /\ ~gwOut.ok
         /\ gwOut.error.body # MsgTextInsteadOfImage
         /\ gwOut.error.body =
              IF Len(gwReply.candidates) = 0 THEN MsgNoResponse ELSE MsgNoCompositeImage
         /\ gwOut.error.arg = << >>

\* a text longer than the quote and no image
C10_Witness ==
  /\ gwOp = "generateCompositeImage"
  /\ ~GwBlocked
  /\ ~GwHasImage
  /\ Len(GwLastText) > QuoteLen
  /\ ~gwOut.ok
  /\ Len(gwOut.error.arg) = QuoteLen

----------------------------------------------------------------------------
(* Similar items *)

\* SimilarItemsDisplay: what it renders of items, isLoading and error
SimilarItemsDisplay(items, loading, err) ==
  (IF loading THEN {"Searching the web..."} ELSE {})
  \cup (IF err # NoMsg THEN {"error"} ELSE {})
  \cup (IF items # Null /\ Len(items.items) > 0 THEN {"links"} ELSE {})
  \cup (IF items # Null /\ Len(items.items) = 0 /\ ~loading
          THEN {"No relevant links were found."} ELSE {})

GwChunks == IF Len(gwReply.candidates) = 0 THEN << >> ELSE gwReply.candidates[1].groundingChunks

\* C11: findSimilarItems sends the e-commerce prompt for "product" and
\* "fashion_item", the maps prompt for "architectural_feature", the recipe
\* prompt for "food_item", the art prompt for "design_element" and the generic
\* prompt for every other elementType; a reply without grounding chunks gives
\* an empty list, not an error, which is rendered as "no links found".
C11_QueryByElementTypeAndEmptyList ==
  gwOp = "findSimilarItems" =>
    /\ gwSent.name = NameOf(gwArg)
    /\ ElementTypeOf(gwArg) \in {"product", "fashion_item"} <=> gwSent.template = PromptEcommerce
    /\ ElementTypeOf(gwArg) = "architectural_feature" <=> gwSent.template = PromptMaps
    /\ ElementTypeOf(gwArg) = "food_item" <=> gwSent.template = PromptRecipes
    /\ ElementTypeOf(gwArg) = "design_element" <=> gwSent.template = PromptArt
    /\ ElementTypeOf(gwArg) \notin (ElementTypes \ {"other"}) <=> gwSent.template = PromptGeneric
    /\ (~gwReply.threw /\ GwChunks = << >>) =>
         /\ gwOut.ok
         /\ gwOut.value.items = << >>
         /\ SimilarItemsDisplay(gwOut.value, FALSE, gwOut.error) = {"No relevant links were found."}

\* an architectural feature searched, the reply has a candidate and no chunk
C11_Witness ==
  /\ gwOp = "findSimilarItems"
  /\ ElementTypeOf(gwArg) = "architectural_feature"
  /\ gwSent.template = PromptMaps
  /\ Len(gwReply.candidates) = 1
  /\ GwChunks = << >>
  /\ gwOut.ok
  /\ gwOut.value.items = << >>

----------------------------------------------------------------------------
(* The upload slots and the selector on their own: every file in either    *)
(* slot, every category.                                                   *)

\* the files dropped on either slot
InputFiles == Files \cup {"c.webp", "d.gif"}

InputUploadPrimary == \E file \in InputFiles : handlePrimaryImageUpload(file) /\ UNCHANGED gwVars
InputUploadSecondary ==
  showSecondary(imageType) /\ \E file \in InputFiles : handleSecondaryImageUpload(file) /\ UNCHANGED gwVars
InputSelectImageType == \E newType \in imageTypes : handleImageTypeChange(newType) /\ UNCHANGED gwVars

InputNext ==
  \/ InputUploadPrimary
  \/ InputUploadSecondary
  \/ InputSelectImageType

InputSpec == Init /\ [][InputNext]_vars

\* C12: handleImageTypeChange from a two-image category to a single-image
\* category sets secondaryImageFile and secondaryImagePreview to null and the
\* category to the new value.
C12_LeavingTwoImageModeClearsSecondary ==
  [][ (last'.op = "handleImageTypeChange" /\ showSecondary(imageType)
         /\ ~showSecondary(last'.arg)) =>
        /\ secondaryImageFile' = NoFile
        /\ secondaryImagePreview' = NoUrl
        /\ imageType' = last'.arg ]_vars

\* the selector has just left a two-image category; a primary image is kept
C12_Witness ==
  /\ last.op = "handleImageTypeChange"
  /\ last.arg = "ARTWORK"
  /\ imageType = "ARTWORK"
  /\ primaryImageFile = "b.png"
  /\ secondaryImageFile = NoFile

\* C13: in each upload slot the preview is null exactly when the file is null
\* and is otherwise the object URL of the slot's file, and the slot's file is
\* the file most recently uploaded to it: an upload stores its file, and no
\* other step puts a file into the slot.
C13_PreviewIsOfLatestUpload ==
  /\ [](/\ primaryImagePreview = NoUrl <=> primaryImageFile = NoFile
        /\ primaryImageFile # NoFile => primaryImagePreview = createObjectURL(primaryImageFile)
        /\ secondaryImagePreview = NoUrl <=> secondaryImageFile = NoFile
        /\ secondaryImageFile # NoFile => secondaryImagePreview = createObjectURL(secondaryImageFile))
  /\ [][ /\ IF last'.op = "handlePrimaryImageUpload"
              THEN primaryImageFile' = last'.arg
              ELSE primaryImageFile' \in {primaryImageFile, NoFile}
         /\ IF last'.op = "handleSecondaryImageUpload"
              THEN secondaryImageFile' = last'.arg
              ELSE secondaryImageFile' \in {secondaryImageFile, NoFile} ]_vars

\* both slots filled, the secondary one just now, with different files
C13_Witness ==
  /\ last.op = "handleSecondaryImageUpload"
  /\ primaryImageFile = "b.png"
  /\ secondaryImageFile = "a.jpg"
  /\ secondaryImagePreview = createObjectURL("a.jpg")
  /\ imageType = "PRODUCT"

----------------------------------------------------------------------------
(* Requests *)

\* the result slot and the error slot of a kind are both null
SlotsNull(kind) ==
  CASE kind = "moodboard" -> generatedResult = Null /\ error = NoMsg
    [] kind = "composite" -> compositeResultUrl = NoUrl /\ compositeError = NoMsg
    [] kind = "details" -> elementDetailsResult = Null /\ elementError = NoMsg
    [] kind = "similar" -> similarItems = Null /\ findSimilarError = NoMsg
    [] OTHER -> TRUE

\* the most recently issued request of the kind has no reply yet
LatestPending(kind) == \E t \in Pending(kind) : t.phase = "sent" /\ t.id = lastIssued[kind]

\* C14: when a request of a kind with a result slot is issued, that kind's
\* result and error slots are null, and they stay null while the request is
\* pending: the previous result is never there while its successor is pending.
C14_SlotsNullWhilePending ==
  /\ last.op = "request" => SlotsNull(last.arg)
  /\ \A kind \in {"moodboard", "composite", "details", "similar"} :
       LatestPending(kind) => SlotsNull(kind)

\* C15 as stated: every handler run that passed its guard has called the
\* service exactly once when it ends.
C15_ExactlyOneCallPerTrigger == last.op = "settled" => last.calls = 1

\* C15 as amended: a handler run calls the service at most once, and not at
\* all when reading the file or loading the image fails first; a run that
\* made no call ends in failure; a failed call is not issued again; and a
\* result in a slot always comes from a call made by the run that stored it,
\* each run being a new one.
C15_AtMostOneCallNoRetryNoCache ==
  /\ \A t \in tasks : t.calls = IF t.phase = "sent" THEN 1 ELSE 0
  /\ \A t, u \in tasks : t.id = u.id => t = u
  /\ \A t \in tasks : t.id <= issued
  /\ last.op = "settled" =>
       /\ last.calls <= 1
       /\ last.calls = 0 => ~last.ok
  /\ generatedResult # Null => src.moodboard.calls = 1
  /\ compositeResultUrl # NoUrl => src.composite.calls = 1
  /\ elementDetailsResult # Null => src.details.calls = 1
  /\ similarItems # Null => src.similar.calls = 1

\* a second mood-board run, after one that had called the service, ended
\* without a call because its file could not be read
C15_Witness ==
  /\ last.op = "settled"
  /\ last.arg = "moodboard"
  /\ last.calls = 0
  /\ ~last.ok
  /\ lastIssued.moodboard >= 1
  /\ issued >= 2

----------------------------------------------------------------------------
(* The service answers every request: it replies or fails, in its own time *)

\* what getElementDetails makes of the replies the service can give
DetailsOutcomes == { getElementDetails(resp) : resp \in UiImageReplies }

\* the continuation of run id after its gateway call settles
Replied(id) ==
  \E t \in tasks :
    /\ t.id = id
    /\ t.phase = "sent"
    /\ tasks' = Others(t)
    /\ \/ \E resp \in UiImageReplies :
            \/ generateMoodboardSettled(t, resp)
            \/ generateCompositeSettled(t, resp)
            \/ enhanceImageSettled(t, resp)
       \/ \E out \in DetailsOutcomes : getElementDetailsDone(t, out)
       \/ \E resp \in UiSearchReplies : findSimilarSettled(t, resp)
    /\ UNCHANGED gwVars

AnsweredSpec == Spec /\ \A id \in 1..MaxRequests : WF_vars(Replied(id))

InProgress(kind) ==
  CASE kind = "moodboard" -> isLoading
    [] kind = "composite" -> isGeneratingComposite
    [] kind = "details" -> isElementLoading
    [] kind = "enhance" -> isEnhancing
    [] kind = "similar" -> isFindingSimilar

InFlight(id) == \E t \in tasks : t.id = id /\ t.phase = "sent"

\* the result slot of the kind holds a result (the enhanced image has none: it
\* is downloaded)
ResultWritten(kind) ==
  CASE kind = "moodboard" -> generatedResult # Null
    [] kind = "composite" -> compositeResultUrl # NoUrl
    [] kind = "details" -> elementDetailsResult # Null
    [] kind = "enhance" -> TRUE
    [] kind = "similar" -> similarItems # Null

\* the error slot of the kind holds a message
ErrorWritten(kind) ==
  CASE kind = "moodboard" -> error # NoMsg
    [] kind = "composite" -> compositeError # NoMsg
    [] kind = "details" -> elementError # NoMsg
    [] kind = "enhance" -> enhancementError # NoMsg
    [] kind = "similar" -> findSimilarError # NoMsg

\* C16: a request in flight stays in flight through every step but its own
\* reply; when the service answers, the run ends: right after, its in-progress
\* flag is false and its result (on success) or its error (on failure) is
\* written; and every request in flight is answered in the end.
C16_RequestsRunToCompletion ==
  /\ [][ \A t \in tasks :
           (t.phase = "sent" /\ ~(last'.op = "settled" /\ last'.arg = t.kind)) =>
             \E u \in tasks' : u.id = t.id /\ u.phase = "sent" ]_vars
  /\ [](last.op = "settled" =>
          /\ ~InProgress(last.arg)
          /\ IF last.ok THEN ResultWritten(last.arg) ELSE ErrorWritten(last.arg))
  /\ \A id \in 1..MaxRequests : InFlight(id) ~> ~InFlight(id)

\* a request in flight when a new primary image was uploaded
C16_Witness ==
  /\ last.op = "handlePrimaryImageUpload"
  /\ \E t \in tasks : t.phase = "sent" /\ t.file # primaryImageFile

----------------------------------------------------------------------------
(* The find-similar control *)

\* ElementDetails: {details && !isLoading && ( ... <button onClick={onFindSimilar}> ... )}
FindSimilarRendered == MoodboardShown /\ hasDetails /\ ~isElementLoading

\* C17: a findSimilarItems request is issued only by a run of handleFindSimilar
\* that found details, and the find-similar control is rendered only while
\* details are present and no element-details request is awaiting its reply.
C17_FindSimilarGatedOnDetails ==
  /\ (last.op = "request" /\ last.arg = "similar") => hasDetails
  /\ FindSimilarRendered =>
       /\ hasDetails
       /\ ~\E t \in Pending("details") : t.phase = "sent"

----------------------------------------------------------------------------
(* The mood-board prompt: handleGenerateMoodboard's prompt assembly on its own *)

\* the literal pieces of the template string, and DEFAULT_MOODBOARD_PROMPT
PromptAttention == "ATTENTION: The uploaded image is categorized as "
PromptPrioritize == ". Prioritize the specific rules for this category in your analysis.\n\n"
DEFAULT_MOODBOARD_PROMPT == "You are an expert visual analyst and mood board designer ..."
PromptAdditional == "\n\nADDITIONAL USER INSTRUCTIONS: "

\* the texts typed into the custom-type field and the instructions field
CustomTypes == { << >>, <<"z">>, <<" ">>, <<" ", "z">> }
UserPrompts ==
  { << >>, <<" ">>, <<"\n", " ">>, <<"a">>, <<" ", "a">>, <<"a", "\n">>,
    <<" ", "a", " ", "b", "\n">> }

\* a custom type is used whenever one is typed, whatever the category
finalImageTypeAnyCategory(type, customImageType) ==
  IF customImageType # << >> THEN customImageType ELSE <<type>>

\* imageType === 'OTHER' && customImageType ? customImageType : imageType
finalImageType(type, customImageType) ==
  IF type = "OTHER" /\ customImageType # << >> THEN customImageType ELSE <<type>>

BasePrompt(tag) ==
  <<PromptAttention>> \o tag \o <<PromptPrioritize, DEFAULT_MOODBOARD_PROMPT>>

WithInstructions(base, trimmed) ==
  IF trimmed # << >> THEN base \o <<PromptAdditional>> \o trimmed ELSE base

finalPrompt(type, customImageType, userPrompt) ==
  WithInstructions(BasePrompt(finalImageType(type, customImageType)), Trim(userPrompt))

PromptInit ==
  /\ AppInit
  /\ gwOp = "none"
  /\ gwReply = Null
  /\ gwArg \in [imageType : imageTypes, customImageType : CustomTypes, userPrompt : UserPrompts]
  /\ gwOut = Ok(Null)
  /\ gwSent = NoSent

AssemblePrompt ==
  /\ gwOp = "none"
  /\ gwOp' = "finalPrompt"
  /\ gwOut' = Ok(finalPrompt(gwArg.imageType, gwArg.customImageType, gwArg.userPrompt))
  /\ UNCHANGED <<gwReply, gwArg, gwSent, appVars>>

PromptSpec == PromptInit /\ [][AssemblePrompt]_vars

\* the places of a piece in a text
PlacesOf(piece, text) == {i \in 1..Len(text) : text[i] = piece}

\* text is s without the whitespace at its two ends
IsTrimmed(text, s) ==
  \E i \in 1..Len(s), j \in 1..Len(s) :
    /\ i <= j
    /\ text = SubSeq(s, i, j)
    /\ s[i] \notin WS /\ s[j] \notin WS
    /\ \A k \in 1..Len(s) : (k < i \/ k > j) => s[k] \in WS

\* the prompt p opens with the header naming tag, followed by the template
HasHeader(p, tag) ==
  /\ Len(p) >= Len(tag) + 3
  /\ p[1] = PromptAttention
  /\ SubSeq(p, 2, Len(tag) + 1) = tag
  /\ p[Len(tag) + 2] = PromptPrioritize
  /\ p[Len(tag) + 3] = DEFAULT_MOODBOARD_PROMPT

\* C18: the prompt is the header naming the category tag followed by the fixed
\* template; nothing follows for empty or blank instructions; otherwise one
\* ADDITIONAL USER INSTRUCTIONS section with the trimmed text follows; the tag
\* is the category value, or the custom type for OTHER with one typed.
C18_PromptIsHeaderTemplateInstructions ==
  gwOp = "finalPrompt" =>
    LET p == gwOut.value
        tag == IF gwArg.imageType = "OTHER" /\ Len(gwArg.customImageType) > 0
                 THEN gwArg.customImageType
                 ELSE <<gwArg.imageType>>
        rest == SubSeq(p, Len(tag) + 4, Len(p))
        blank == \A k \in 1..Len(gwArg.userPrompt) : gwArg.userPrompt[k] \in WS
    IN /\ gwOut.ok
       /\ HasHeader(p, tag)
       /\ blank => rest = << >>
       /\ ~blank =>
            /\ rest # << >>
            /\ Head(rest) = PromptAdditional
            /\ IsTrimmed(Tail(rest), gwArg.userPrompt)
            /\ Cardinality(PlacesOf(PromptAdditional, p)) = 1

\* OTHER with a custom type typed and instructions with blanks around them
C18_Witness ==
  /\ gwOp = "finalPrompt"
  /\ gwArg.imageType = "OTHER"
  /\ gwArg.customImageType = <<" ", "z">>
  /\ gwArg.userPrompt = <<" ", "a", " ", "b", "\n">>
  /\ Len(gwOut.value) = 9

----------------------------------------------------------------------------
(* parseJsonFromMarkdown on a details object, fenced and bare *)

\* the JSON texts of the details objects
DetailsTexts == {e[1] : e \in {f \in JsonTable : IsElementDetails(f[2])}}

Fence == <<Tick, Tick, Tick>>

\* how a reply presents the text: bare, or in a fenced block with or without
\* the json tag and with or without line breaks inside the fences
Wrappings ==
  {[fenced |-> FALSE, tag |-> << >>, open |-> << >>, close |-> << >>]} \cup
  [fenced : {TRUE}, tag : {<< >>, <<"j", "s", "o", "n">>},
   open : {<< >>, <<"\n">>, <<" ", "\n">>}, close : {<< >>, <<"\n">>}]

Wrapped(text, w) ==
  IF w.fenced THEN Fence \o w.tag \o w.open \o text \o w.close \o Fence ELSE text

ParseInit ==
  /\ AppInit
  /\ gwOp = "none"
  /\ gwReply = Null
  /\ gwArg \in [d : DetailsTexts, wrap : Wrappings]
  /\ gwOut = Ok(Null)
  /\ gwSent = NoSent

ParseWrapped ==
  /\ gwOp = "none"
  /\ gwOp' = "parseJsonFromMarkdown"
  /\ gwOut' = Ok(parseJsonFromMarkdown(Wrapped(gwArg.d, gwArg.wrap)))
  /\ UNCHANGED <<gwReply, gwArg, gwSent, appVars>>

ParseSpec == ParseInit /\ [][ParseWrapped]_vars

\* C19: the text of a details object parses to the same object bare and in a
\* fenced block, with or without the json tag, and that object is the one
\* JSON.parse makes of the text.
C19_FencedAndBareParseAlike ==
  gwOp = "parseJsonFromMarkdown" =>
    /\ gwOut.value = parseJsonFromMarkdown(gwArg.d)
    /\ gwOut.value = JSONParse(gwArg.d)
    /\ IsElementDetails(gwOut.value)

----------------------------------------------------------------------------
(* The click on the mood board: handleImageClick's coordinates on their own. *)
(* Numbers are exact fractions num / den in lowest terms.                    *)

\* the largest rendered side, natural side and page offset of the image element
MaxSide == 3
MaxNatural == 4
MaxOffset == 1

RECURSIVE Gcd(_, _)
Gcd(a, b) == IF b = 0 THEN a ELSE Gcd(b, a % b)

\* n / d
Frac(n, d) == [num |-> n \div Gcd(n, d), den |-> d \div Gcd(n, d)]

\* k * r
Times(k, r) == Frac(k * r.num, r.den)

\* the image element: getBoundingClientRect().left / .top, width, height,
\* naturalWidth, naturalHeight
Elements ==
  [left : 0..MaxOffset, top : 0..MaxOffset, width : 2..MaxSide, height : 2..MaxSide,
   naturalWidth : 3..MaxNatural, naturalHeight : {MaxNatural}]

\* a click inside the element: event.clientX, event.clientY
ClickEvents ==
  { c \in [el : Elements, clientX : 0..(MaxOffset + MaxSide), clientY : 0..(MaxOffset + MaxSide)] :
      /\ c.clientX >= c.el.left /\ c.clientX < c.el.left + c.el.width
      /\ c.clientY >= c.el.top /\ c.clientY < c.el.top + c.el.height }

\* the click position taken as the position in the image
originalXUnscaled(x, el) == Frac(x, 1)

\* const scaleX = naturalWidth / width; const originalX = x * scaleX
originalX(x, el) == Times(x, Frac(el.naturalWidth, el.width))

\* const scaleY = naturalHeight / height; const originalY = y * scaleY
originalY(y, el) == Times(y, Frac(el.naturalHeight, el.height))

NoCanvas == [width |-> 0, height |-> 0, arc |-> Null]

ClickInit ==
  /\ AppInit
  /\ gwOp = "none"
  /\ gwReply = Null
  /\ gwArg \in ClickEvents
  /\ gwOut = Ok(Null)
  /\ gwSent = NoCanvas

\* handleImageClick up to new Image(): x, y, setClickPosition, originalX, originalY
ClickAt ==
  LET x == gwArg.clientX - gwArg.el.left
      y == gwArg.clientY - gwArg.el.top
  IN /\ gwOp = "none"
     /\ gwOp' = "handleImageClick"
     /\ gwOut' = Ok([clickPosition |-> [x |-> x, y |-> y],
                     originalX |-> originalX(x, gwArg.el),
                     originalY |-> originalY(y, gwArg.el)])
     /\ UNCHANGED <<gwReply, gwArg, gwSent, appVars>>

\* img.onload: the canvas takes the image's natural size, the image and the
\* marker are drawn, and the canvas is what getElementDetails is given
MarkAndSend ==
  /\ gwOp = "handleImageClick"
  /\ gwOp' = "getElementDetails"
  /\ gwSent' = [width |-> gwArg.el.naturalWidth,
                height |-> gwArg.el.naturalHeight,
                arc |-> [x |-> gwOut.value.originalX, y |-> gwOut.value.originalY]]
  /\ UNCHANGED <<gwReply, gwArg, gwOut, appVars>>

ClickNext ==
  \/ ClickAt
  \/ MarkAndSend

ClickSpec == ClickInit /\ [][ClickNext]_vars

\* the fraction r is the quotient n / d
IsQuotient(r, n, d) == r.den > 0 /\ r.num * d = n * r.den

\* C20: the click position is the pointer position minus the element's
\* top-left corner; the image given to getElementDetails has the natural size
\* (W, H) and carries the marker at (x*W/w, y*H/h).
C20_MarkerAtScaledClick ==
  LET el == gwArg.el
      x == gwArg.clientX - el.left
      y == gwArg.clientY - el.top
  IN /\ gwOp # "none" => gwOut.value.clickPosition = [x |-> x, y |-> y]
     /\ gwOp = "getElementDetails" =>
          /\ gwSent.width = el.naturalWidth /\ gwSent.height = el.naturalHeight
          /\ IsQuotient(gwSent.arc.x, x * el.naturalWidth, el.width)
          /\ IsQuotient(gwSent.arc.y, y * el.naturalHeight, el.height)

\* a click off the corner of a shifted element whose natural width is no
\* multiple of its rendered width
C20_Witness ==
  /\ gwOp = "getElementDetails"
  /\ gwArg.el.left = 1 /\ gwArg.clientX = 3
  /\ gwArg.el.width = 3 /\ gwArg.el.naturalWidth = 4
  /\ gwSent.arc.x = [num |-> 8, den |-> 3]

----------------------------------------------------------------------------
(* Error messages *)

\* the error slot of an operation
ErrorSlot(kind) ==
  CASE kind = "moodboard" -> error
    [] kind = "composite" -> compositeError
    [] kind = "details" -> elementError
    [] kind = "enhance" -> enhancementError
    [] kind = "similar" -> findSimilarError

\* the prefix the gateway function of an operation puts before a failure
PrefixOf(kind) ==
  CASE kind = "moodboard" -> PrefixMoodboard
    [] kind = "composite" -> PrefixComposite
    [] kind = "details" -> PrefixDetails
    [] kind = "enhance" -> PrefixEnhance
    [] kind = "similar" -> PrefixSimilar

\* the failures under a gateway function's catch block
GatewayFailures ==
  TransportErrors \cup
  {MsgBlocked, MsgNoResponse, MsgNoMoodboardImage, MsgNoElementImage, MsgInvalidJson,
   MsgNoEnhancedImage, MsgTextInsteadOfImage, MsgNoCompositeImage}

Rejections ==
  {MsgBlocked, MsgNoMoodboardImage, MsgNoElementImage, MsgNoEnhancedImage, MsgNoCompositeImage}

\* C22: when the provider rejected the content, the error slot of the
\* operation holds the rejection message alone, with nothing put before it.
C22_RejectionShownVerbatim ==
  (/\ last.op = "settled" /\ ~last.ok /\ last.calls = 1
   /\ ErrorSlot(last.arg) # NoMsg
   /\ ErrorSlot(last.arg).body \in Rejections)
  => ErrorSlot(last.arg).prefix = ""

----------------------------------------------------------------------------
(* Data URLs: built by the gateway, taken apart by handleEnhanceImage *)

\* image parts of a reply: a MIME type and a base64 payload, character by character
UrlMimeTypes ==
  { <<"image", "/", "png">>, <<"image", "/", "jpeg">>, <<"image", "/", "webp">>,
    <<"image", "/", "svg", "+", "xml">> }
UrlPayloads ==
  { <<"A">>, <<"A", "B">>, <<"A", "+", "B">>, <<"A", "/", "B">>, <<"A", "=">>,
    <<"A", "=", "=">>, <<"/", "9", "j">>, <<"i", "V", "B", "O">>, <<"+", "/", "=">> }

UrlReplies ==
  { [threw |-> FALSE, message |-> "", blockReason |-> "",
     candidates |-> <<Candidate(<<[text |-> NoText, inlineData |-> [mimeType |-> m, data |-> d]]>>)>>] :
      m \in UrlMimeTypes, d \in UrlPayloads }

\* String.prototype.split(sep): the pieces of s between the separators
RECURSIVE Split(_, _, _)
Split(s, sep, piece) ==
  IF s = << >> THEN <<piece>>
  ELSE IF Head(s) = sep THEN <<piece>> \o Split(Tail(s), sep, << >>)
  ELSE Split(Tail(s), sep, Append(piece, Head(s)))

\* handleEnhanceImage taking all of meta after the colon as the MIME type
EnhanceArgsWholeMeta(imageUrl) ==
  LET parts == Split(imageUrl, ",", << >>)
  IN [base64Data |-> parts[2], mimeType |-> Split(parts[1], ":", << >>)[2]]

\* const parts = imageUrl.split(','); const meta = parts[0];
\* const base64Data = parts[1]; const mimeType = meta.split(':')[1].split(';')[0]
EnhanceArgs(imageUrl) ==
  LET parts == Split(imageUrl, ",", << >>)
  IN [base64Data |-> parts[2],
      mimeType |-> Split(Split(parts[1], ":", << >>)[2], ";", << >>)[1]]

NoArgs == [base64Data |-> << >>, mimeType |-> << >>]

UrlInit ==
  /\ AppInit
  /\ gwOp = "none"
  /\ gwReply \in UrlReplies
  /\ gwArg = Null
  /\ gwOut = Ok(Null)
  /\ gwSent = NoArgs

\* generateMoodboard returns; handleGenerateMoodboard stores the result
UrlStored ==
  /\ gwOp = "none"
  /\ gwOp' = "generateMoodboard"
  /\ gwOut' = generateMoodboard(gwReply)
  /\ UNCHANGED <<gwReply, gwArg, gwSent, appVars>>

\* handleEnhanceImage up to its call of enhanceImageTo8K
UrlSplit ==
  /\ gwOp = "generateMoodboard"
  /\ gwOut.ok
  /\ gwOp' = "handleEnhanceImage"
  /\ gwSent' = EnhanceArgs(gwOut.value.imageUrl)
  /\ UNCHANGED <<gwReply, gwArg, gwOut, appVars>>

UrlNext ==
  \/ UrlStored
  \/ UrlSplit

UrlSpec == UrlInit /\ [][UrlNext]_vars

----------------------------------------------------------------------------
(* Composite generation: what the two uploads are sent as *)

\* uploaderConfig[type].primaryLabel / secondaryLabel: what each slot asks for
uploaderConfig(type) ==
  CASE type = "FASHION/OUTFIT" -> [showSecondary |-> TRUE, primary |-> "look", secondary |-> "user"]
    [] type = "PRODUCT" -> [showSecondary |-> TRUE, primary |-> "product", secondary |-> "background"]
    [] OTHER -> [showSecondary |-> FALSE, primary |-> "image", secondary |-> "none"]

\* compositePrompt: what the prompt says IMAGE 1 and IMAGE 2 are
compositePrompt(type) ==
  CASE type = "FASHION/OUTFIT" -> [image1 |-> "look", image2 |-> "user"]
    [] type = "PRODUCT" -> [image1 |-> "background", image2 |-> "product"]
    [] OTHER -> [image1 |-> "", image2 |-> ""]

NoContents == [parts |-> << >>, prompt |-> compositePrompt("")]

\* generateCompositeImage: contents.parts, the two images and then the text
CompositeContents(primary, secondary, prompt) ==
  [parts |-> <<primary, secondary>>, prompt |-> prompt]

CompositeInit ==
  /\ AppInit
  /\ gwOp = "none"
  /\ gwReply = Null
  /\ gwArg \in [imageType : imageTypes, primaryImageFile : InputFiles,
                secondaryImageFile : InputFiles]
  /\ gwOut = Ok(Null)
  /\ gwSent = NoContents

\* handleGenerateComposite with both images uploaded, up to its gateway call
SendComposite ==
  /\ gwOp = "none"
  /\ IF uploaderConfig(gwArg.imageType).showSecondary
       THEN /\ gwOp' = "generateCompositeImage"
            /\ gwSent' = CompositeContents(gwArg.primaryImageFile, gwArg.secondaryImageFile,
                                           compositePrompt(gwArg.imageType))
       ELSE /\ gwOp' = "returned"
            /\ UNCHANGED gwSent
  /\ UNCHANGED <<gwReply, gwArg, gwOut, appVars>>

CompositeSpec == CompositeInit /\ [][SendComposite]_vars

\* C24: the primary upload is the first image part and the secondary upload
\* the second, and the prompt describes IMAGE 1 as what the primary slot asks
\* for and IMAGE 2 as what the secondary slot asks for.
C24_PromptRolesMatchSlots ==
  gwOp = "generateCompositeImage" =>
    /\ gwSent.parts = <<gwArg.primaryImageFile, gwArg.secondaryImageFile>>
    /\ gwSent.prompt.image1 = uploaderConfig(gwArg.imageType).primary
    /\ gwSent.prompt.image2 = uploaderConfig(gwArg.imageType).secondary

----------------------------------------------------------------------------
(* callGeminiModel's two checks, seen through the four image operations *)

\* C25: an image operation given a reply with a block reason fails with the
\* block-reason message, whatever candidates the reply carries; given a reply
\* without block reason and without candidates it fails with the "did not
\* return a response" message; no value is returned in either case.
C25_BlockedOrEmptyReplyFails ==
  (gwOp \in ImageOps /\ ~gwReply.threw) =>
    /\ gwReply.blockReason # "" =>
         /\ ~gwOut.ok
         /\ gwOut.value = Null
         /\ gwOut.error.body = MsgBlocked
         /\ gwOut.error.arg = <<gwReply.blockReason>>
    /\ (gwReply.blockReason = "" /\ gwReply.candidates = << >>) =>
         /\ ~gwOut.ok
         /\ gwOut.value = Null
         /\ gwOut.error.body = MsgNoResponse

\* a blocked reply that carries a candidate with an image part all the same
C25_Witness ==
  /\ gwOp = "enhanceImageTo8K"
  /\ gwReply.blockReason = "SAFETY"
  /\ gwReply.candidates # << >>
  /\ \E i \in 1..Len(gwReply.candidates[1].parts) :
       gwReply.candidates[1].parts[i].inlineData # NoData
  /\ gwOut.error.body = MsgBlocked

----------------------------------------------------------------------------
(* The items findSimilarItems returns *)

\* the places of the chunks that carry a web uri
UriPlaces(chunks) == {i \in 1..Len(chunks) : chunks[i].uri # ""}

\* the k-th of these places
UriPlace(chunks, k) ==
  CHOOSE i \in UriPlaces(chunks) : Cardinality({j \in UriPlaces(chunks) : j <= i}) = k

\* C26: findSimilarItems returns one item per chunk with a web uri, in the
\* order of the chunks, each with that uri and with the chunk's title or
\* "Untitled"; chunks without a uri are left out, and it is no error when
\* none is left.
C26_ItemsAreChunksWithUri ==
  (gwOp = "findSimilarItems" /\ ~gwReply.threw) =>
    LET items == gwOut.value.items
    IN /\ gwOut.ok
       /\ Len(items) = Cardinality(UriPlaces(GwChunks))
       /\ \A k \in 1..Len(items) :
            LET web == GwChunks[UriPlace(GwChunks, k)]
            IN /\ items[k].uri # ""
               /\ items[k].uri = web.uri
               /\ items[k].title = (IF web.title = "" THEN "Untitled" ELSE web.title)

\* an untitled chunk with a uri, after a chunk without one
C26_Witness ==
  /\ gwOp = "findSimilarItems"
  /\ Len(GwChunks) = 2
  /\ GwChunks[1].uri = "" /\ GwChunks[1].title # ""
  /\ GwChunks[2].uri # "" /\ GwChunks[2].title = ""
  /\ gwOut.value.items = <<[title |-> "Untitled", uri |-> GwChunks[2].uri]>>

----------------------------------------------------------------------------
(* Text that is no JSON, and JSON that is falsy *)

\* null, false, 0 and ""
FalsyJson ==
  { JsNull, [t |-> "bool", v |-> "false"], [t |-> "num", v |-> "0"], [t |-> "str", v |-> ""] }

\* JSON.parse of the text within its fence throws, or gives a falsy value
Unusable(text) ==
  \/ JSONParse(jsonString(text)) = ParseError
  \/ JSONParse(jsonString(text)) \in FalsyJson

\* C27 as stated: parseJsonFromMarkdown returns null for text that is no JSON
\* and never throws; a reply to getElementDetails with a text part that is no
\* JSON or parses to null, false, 0 or "" fails with the invalid-JSON message.
C27_UnusableTextGivesInvalidJson ==
  (gwOp = "getElementDetails" /\ ~gwReply.threw /\ ~GwBlocked) =>
    \A i \in GwTextIndexes :
      /\ parseJsonFromMarkdown(GwParts[i].text) # ParseError
      /\ JSONParse(jsonString(GwParts[i].text)) = ParseError =>
           parseJsonFromMarkdown(GwParts[i].text) = JsNull
      /\ Unusable(GwParts[i].text) => (~gwOut.ok /\ gwOut.error.body = MsgInvalidJson)

\* C27 as amended: parseJsonFromMarkdown returns null for text that is no JSON
\* and never throws; a reply to getElementDetails whose last text part is no
\* JSON or parses to null, false, 0 or "" fails: with the invalid-JSON message
\* when it has an image part, with the no-image message when it has none.
C27_UnusableLastTextFails ==
  (gwOp = "getElementDetails" /\ ~gwReply.threw /\ ~GwBlocked) =>
    /\ \A i \in GwTextIndexes :
         /\ parseJsonFromMarkdown(GwParts[i].text) # ParseError
         /\ JSONParse(jsonString(GwParts[i].text)) = ParseError =>
              parseJsonFromMarkdown(GwParts[i].text) = JsNull
    /\ (GwLastText # NoText /\ Unusable(GwLastText)) =>
         /\ ~gwOut.ok
         /\ gwOut.error.body = (IF GwHasImage THEN MsgInvalidJson ELSE MsgNoElementImage)

\* an image and the text false
C27_Witness ==
  /\ gwOp = "getElementDetails"
  /\ ~GwBlocked
  /\ GwHasImage
  /\ GwLastText = <<"f", "a", "l", "s", "e">>
  /\ gwOut.error.body = MsgInvalidJson

----------------------------------------------------------------------------
(* In-progress flags, result/error pairs, preconditions *)

\* the kind's flag is true exactly when a handler run of the kind has started
\* and not yet ended
FlagTellsPending(kind) == InProgress(kind) <=> (Pending(kind) # {})

\* C28: each operation's in-progress flag is true exactly when at least one
\* request of that kind has been started and has neither completed nor failed.
C28_FlagTrueIffRequestPending == \A kind \in Kinds : FlagTellsPending(kind)

\* the kind's result slot and error slot both hold something
BothWritten(kind) == ResultWritten(kind) /\ ErrorWritten(kind)

\* C29: for mood board, composite, element details and similar items, the
\* result and the error are never both non-null.
C29_NeverResultAndError ==
  \A kind \in {"moodboard", "composite", "details", "similar"} : ~BothWritten(kind)

----------------------------------------------------------------------------
(* The handlers called in any state, whatever the page enables *)

CallGenerateMoodboard == handleGenerateMoodboard /\ UNCHANGED gwVars
CallGenerateComposite == handleGenerateComposite /\ UNCHANGED gwVars
CallImageClick == \E pos \in Clicks, ctx \in BOOLEAN : handleImageClick(pos, ctx) /\ UNCHANGED gwVars
CallEnhanceImage == handleEnhanceImage /\ UNCHANGED gwVars
CallFindSimilar == handleFindSimilar /\ UNCHANGED gwVars

DirectNext ==
  \/ UploadPrimary
  \/ UploadSecondary
  \/ SelectImageType
  \/ CallGenerateMoodboard
  \/ CallGenerateComposite
  \/ CallImageClick
  \/ CallEnhanceImage
  \/ CallFindSimilar
  \/ FileRead
  \/ FileReadFailed
  \/ ImageLoaded
  \/ ImageLoadFailed
  \/ MoodboardReplied
  \/ CompositeReplied
  \/ DetailsReplied
  \/ EnhanceReplied
  \/ SimilarReplied

DirectSpec == Init /\ [][DirectNext]_vars

\* what a handler needs to find when it is called
HasInputs(kind) ==
  CASE kind = "moodboard" -> primaryImageFile # NoFile
    [] kind = "composite" ->
         showSecondary(imageType) /\ primaryImageFile # NoFile /\ secondaryImageFile # NoFile
    [] kind = "details" -> hasImageUrl
    [] kind = "enhance" -> hasImageUrl
    [] OTHER -> TRUE

HandlerOf(kind) ==
  CASE kind = "moodboard" -> "handleGenerateMoodboard"
    [] kind = "composite" -> "handleGenerateComposite"
    [] kind = "details" -> "handleImageClick"
    [] kind = "enhance" -> "handleEnhanceImage"

\* the step left everything as it was but, at most, the kind's error message
OnlyOwnErrorChanged(kind) ==
  /\ UNCHANGED <<uploadVars, imageType, tasks, histVars>>
  /\ UNCHANGED <<generatedResult, isLoading, elementDetailsResult, isElementLoading,
                 clickPosition, isEnhancing, similarItems, isFindingSimilar,
                 compositeResultUrl, isGeneratingComposite>>
  /\ \A other \in Kinds \ {kind} : ErrorSlot(other)' = ErrorSlot(other)

\* C30: a handler run is started, and so a request issued, only by a call
\* that found its inputs; a call that did not find them starts nothing, sets
\* no in-progress flag and changes at most its own error message.
C30_NoRequestWithoutInputs ==
  [][ \A kind \in {"moodboard", "composite", "details", "enhance"} :
        /\ (\E t \in tasks' : t.kind = kind /\ t.id > issued) => HasInputs(kind)
        /\ (last'.op = "request" /\ last'.arg = kind) =>
             \E t \in tasks' : t.kind = kind /\ t.phase = "sent"
        /\ (~HasInputs(kind) /\ last'.op = HandlerOf(kind)) =>
             /\ ~last'.ok
             /\ OnlyOwnErrorChanged(kind) ]_vars

\* handleGenerateComposite called in a two-image category with the second
\* image missing
C30_Witness ==
  /\ last.op = "handleGenerateComposite"
  /\ ~last.ok
  /\ showSecondary(imageType)
  /\ primaryImageFile # NoFile
  /\ secondaryImageFile = NoFile
  /\ compositeError = Plain(MsgUploadBothFirst)

----------------------------------------------------------------------------
(* The category selector *)

\* C31: a second image is held only while the category is a two-image mode.
C31_SecondaryOnlyInTwoImageMode ==
  secondaryImageFile # NoFile => imageType \in {"FASHION/OUTFIT", "PRODUCT"}

\* the second image kept through a switch to the other two-image category
C31_Witness ==
  /\ last.op = "handleImageTypeChange"
  /\ imageType = "PRODUCT"
  /\ secondaryImageFile # NoFile

----------------------------------------------------------------------------
(* What the enhancement leaves alone *)

\* a step of handleEnhanceImage: its first line returning, its start, or its end
EnhanceStep ==
  \/ last'.op = "handleEnhanceImage"
  \/ last'.op = "request" /\ last'.arg = "enhance"
  \/ last'.op = "settled" /\ last'.arg = "enhance"

\* C32: handleEnhanceImage, on success and on failure, changes nothing but
\* isEnhancing and enhancementError: the uploads, the category, the four
\* results and every other error and flag stay as they were.
C32_EnhanceChangesOnlyItsOwnSlots ==
  [][EnhanceStep =>
       UNCHANGED <<uploadVars, imageType, moodVars, elemVars, simVars, compVars>>]_vars

\* an enhancement that succeeded while a collage and a composite were held
C32_Witness ==
  /\ last.op = "settled"
  /\ last.arg = "enhance"
  /\ last.ok
  /\ generatedResult # Null
  /\ compositeResultUrl # NoUrl

----------------------------------------------------------------------------
(* What the category selector leaves alone *)

\* C33: handleImageTypeChange never changes the primary image, a result, an
\* error or an in-progress flag, and it keeps the second image whenever the
\* new category takes two images or the old one took a single image.
C33_TypeChangeFrame ==
  [][last'.op = "handleImageTypeChange" =>
       /\ UNCHANGED <<primaryImageFile, primaryImagePreview>>
       /\ UNCHANGED <<generatedResult, elementDetailsResult, similarItems, compositeResultUrl>>
       /\ UNCHANGED <<error, elementError, enhancementError, findSimilarError, compositeError>>
       /\ UNCHANGED <<isLoading, isElementLoading, isEnhancing, isFindingSimilar,
                      isGeneratingComposite>>
       /\ (showSecondary(imageType') \/ ~showSecondary(imageType))
            => UNCHANGED <<secondaryImageFile, secondaryImagePreview>>]_vars

\* a composite made under a two-image category, still held under a single-image one
C33_Witness ==
  /\ last.op = "handleImageTypeChange"
  /\ ~showSecondary(imageType)
  /\ compositeResultUrl # NoUrl
  /\ secondaryImageFile = NoFile

----------------------------------------------------------------------------
(* Replies the search accepts and the image operations refuse *)

\* the reply carries a block reason, or no candidate
GwRefusable == ~gwReply.threw /\ (GwBlocked \/ gwReply.candidates = << >>)

\* C34: findSimilarItems fails exactly when the call of the service throws;
\* a reply that is returned, blocked or without candidates included, gives
\* a list, empty when there are no chunks, where the four image operations
\* fail on a blocked reply and on one without candidates.
C34_SearchFailsOnlyOnThrow ==
  /\ gwOp = "findSimilarItems" =>
       /\ gwOut.ok <=> ~gwReply.threw
       /\ gwOut.ok => /\ gwOut.error = NoMsg
                      /\ Len(gwOut.value.items) \in 0..Len(GwChunks)
                      /\ GwChunks = << >> => gwOut.value.items = << >>
       /\ ~gwOut.ok => gwOut.error = [prefix |-> PrefixSimilar, body |-> gwReply.message,
                                       arg |-> << >>]
  /\ (gwOp \in ImageOps /\ GwRefusable) => ~gwOut.ok

\* a blocked reply with a grounding chunk, turned into a list of one link
C34_Witness ==
  /\ gwOp = "findSimilarItems"
  /\ GwBlocked
  /\ gwOut.ok
  /\ Len(gwOut.value.items) = 1

====
